---------------------------- MODULE Spec2Model ----------------------------
(***************************************************************************)
(* Verification model of the geoflow bulk-loading core.                    *)
(*                                                                         *)
(* Part 1 (specification Spec): the load engine DataLoader::load_data      *)
(* (src/src/bulk_loading/mod.rs, src/src/bulk_loading/load.rs): a spooler  *)
(* task that walks a source and sends Result<String> messages on a bounded *)
(* tokio mpsc channel, and the main task that drains the channel into a    *)
(* PostgreSQL COPY stream and then finishes or aborts it.                  *)
(*                                                                         *)
(* Part 2 (specification SpecRest): the query loop of the ArcGIS REST      *)
(* spooler (src/src/bulk_loading/arcgis/mod.rs) and its retrying fetch     *)
(* (src/src/bulk_loading/arcgis/scraping.rs).                              *)
(***************************************************************************)
EXTENDS Integers, Sequences, FiniteSets, TLC

(***************************************************************************)
(* Bounds of the model.                                                    *)
(***************************************************************************)
\* longest source (in rows) whose every interleaving is explored
MaxRows == 3
\* rows left in the source behind a spooler that has run ahead of the drainer
MaxTail == 2
\* most queries the REST query iterator yields in one run
MaxQueries == 2
\* highest object id of a small REST service
MaxOid == 5
\* highest maxRecordCount of a small REST service
MaxRecordCount == 3
\* longest file_path (in tokens) of which every spelling is tried
MaxPathLen == 3
\* longest column or table name (in characters) of which every spelling is tried
MaxNameLen == 4
\* longest cell (in characters) and most cells of a row of which every value is tried
MaxCellLen == 1
MaxCells == 2
\* most path segments of a REST layer URL
MaxSegments == 3
\* most formats in the format list a REST service advertises
MaxFormats == 3
\* SQL_NAME_REGEX: the most characters after the first, {1,64}
NameTailMax == 64

(***************************************************************************)
(* Program constants.                                                      *)
(***************************************************************************)
\* mpsc_channel(1000)
ChannelCapacity == 1000
\* static MAX_RETRY: i32 = 5
MAX_RETRY == 5
\* scrape_count: at most 10000 records per query
ScrapeLimit == 10000

(***************************************************************************)
(* State.                                                                  *)
(***************************************************************************)
VARIABLES
    revision,     \* which load_data is running: "mod" (mod.rs) or "load" (load.rs)
    adapter,      \* the DataLoader variant
    source,       \* the source the spooler reads: [open, bulk, tail]
    pc,           \* position of the load_data future
    result,       \* `result` of the drain loop: Ok(()) or Err(error)
    returned,     \* the value load_data returned to its caller
    cur,          \* the record received and being sent to the copy stream
    chan,         \* messages buffered in the channel, oldest first
    rxClosed,     \* rx.close() was called or rx was dropped
    txDropped,    \* the only Sender was dropped
    copy,         \* the copy stream: "none", "open", "finished", "aborted", "released"
    written,      \* the lines the copy stream accepted, in order
    finishCalls,  \* number of calls of copy.finish()
    abortCalls,   \* number of calls of copy.abort(..)
    abortMsg,     \* the message given to copy.abort(..)
    sp,           \* position of the spooler task: "idle", "run", "done"
    spExit,       \* how the spooler task ended: "-", "none", "send_error", "panic"
    nxt,          \* index of the next source row the spooler reads
    emitted,      \* every message the spooler sent successfully, in order
    joined,       \* what spool_handle.await reported to load_data
    firstErr,     \* the first Err(e) the drain loop received, or NoValue
    sendFailed,   \* a copy.send(..) failed
    droppedAt,    \* where the load_data future was when its caller dropped it
    query_format, \* the QueryFormat of the REST service
    queryCount,   \* how many queries the query iterator yields
    query,        \* index of the query the REST spooler is at
    attempts,     \* `attempts` of loop_until_successful
    served,       \* per query, the HTTP responses it was given, in order
    fetchResult,  \* per query, what fetch_query returned
    fetched,      \* the features the REST spooler got to walk, in order
    sent,         \* the messages the REST spooler gave to record_channel.send, in order
    rest,         \* position of the REST spooler: "idle", "next", "loop", "features",
                  \* "failed", "done"
    metadata,     \* the REST service whose queries are iterated
    iter,         \* the QueryIterator: NoValue, Err(e), or its fields
    yielded,      \* the queries the iterator has yielded, in order
    arg,          \* the argument of the function under study
    ret           \* what the function returned for arg

restVars ==
    <<query_format, queryCount, query, attempts, served, fetchResult, fetched, sent, rest>>

pagingVars == <<metadata, iter, yielded>>

callVars == <<arg, ret>>

\* what the load engine never touches
offLoadVars == <<restVars, pagingVars, callVars>>

vars == <<revision, adapter, source, pc, result, returned, cur, chan, rxClosed, txDropped,
          copy, written, finishCalls, abortCalls, abortMsg, sp, spExit, nxt,
          emitted, joined, firstErr, sendFailed, droppedAt, restVars, pagingVars, callVars>>

NoValue == [tag |-> "none"]

(***************************************************************************)
(* Errors (error.rs) and messages on the channel.                          *)
(***************************************************************************)
\* An error is [variant, what, at]: the BulkDataError variant, its text, and the
\* source row or record the text names (0 when it names none).
Generic(what, at) == [variant |-> "Generic", what |-> what, at |-> at]
SqlError(op) == [variant |-> "SQL", what |-> op, at |-> 0]
Reqwest(what) == [variant |-> "Reqwest", what |-> what, at |-> 0]
\* impl From<(&str, StatusCode)> for BulkDataError
ArcGis(url, status) == [variant |-> "ArcGis", what |-> url, at |-> status]

\* impl Display for BulkDataError: a per-variant banner, then the payload
Display(error) ==
    [ banner |-> CASE error.variant = "Generic" -> "Loader Error"
                   [] error.variant = "SQL" -> "Polars Error"
                   [] error.variant = "Reqwest" -> "Reqwest Error"
                   [] OTHER -> "Error while running query",
      what |-> error.what,
      at |-> error.at ]

OkValue(v) == [tag |-> "Ok", val |-> v]
ErrValue(e) == [tag |-> "Err", val |-> e]
IsOk(r) == r.tag = "Ok"
IsErr(r) == r.tag = "Err"

\* the canonical CSV line of source row i
Line(i) == i
\* the error an adapter reports for source row i (0: the source could not be opened)
SourceError(i) == Generic("source", i)


(***************************************************************************)
(* Sources.  A source is [open, bulk, tail, service]: `open` says whether  *)
(* the file (or sheet, or dataframe) can be opened, rows 1..bulk are plain *)
(* rows, the rows after them have the outcomes listed in `tail`, and       *)
(* `service` describes the REST feature service of the ArcGis adapter.     *)
(***************************************************************************)
Adapters == {"ArcGis", "Avro", "Delimited", "Excel", "GeoJson", "Ipc", "Parquet", "Shape"}

\* What reading one row of the source can give:
\*   "ok"        the row converts to a CSV line
\*   "row_err"   a cell (or the geometry) of the row does not convert
\*   "read_err"  the reader fails to produce the row (or the REST query fails)
RowOutcomes(a) ==
    CASE a = "Delimited" -> {"ok", "read_err"}
      [] a = "Excel" -> {"ok", "row_err"}
      [] a = "Ipc" -> {"ok"}
      [] a = "Parquet" -> {"ok", "row_err"}
      [] OTHER -> {"ok", "row_err", "read_err"}

\* The adapters whose row loop sends the row's Result and goes on to the next row
\* whatever that Result is (avro.rs 309-314, parquet.rs 173-178, shape.rs 156-161,
\* utilities.rs 86-91); the other adapters return right after sending an Err.
ContinuesAfterRowErr(a) == a \in {"Avro", "Parquet", "Shape", "Ipc"}

SourceLen(src) == src.bulk + Len(src.tail)
RowOutcome(src, i) == IF i <= src.bulk THEN "ok" ELSE src.tail[i - src.bulk]

RECURSIVE SeqsUpTo(_, _)
SeqsUpTo(S, n) ==
    IF n = 0 THEN {<<>>}
    ELSE LET shorter == SeqsUpTo(S, n - 1)
         IN  shorter \cup {Append(q, x) : q \in {t \in shorter : Len(t) = n - 1}, x \in S}

(***************************************************************************)
(* REST metadata discovery (arcgis/metadata.rs), as far as the spooler's   *)
(* start depends on it.  A service is described by what its endpoints      *)
(* answer.                                                                 *)
(***************************************************************************)
Services ==
    [ reachable  : BOOLEAN,            \* the count and metadata requests succeed
      geometryOk : BOOLEAN,            \* a table, or a layer that reports its geometry type
      pagination : BOOLEAN,            \* supports_pagination()
      statistics : BOOLEAN,            \* supports_statistics()
      oidField   : BOOLEAN,            \* an object-id field is declared or found
      objectIds  : {<<>>, <<3, 7>>},   \* the ids-only response's objectIds
      statRows   : {<<>>, << <<7, 3>> >>} ]  \* the statistics response's (max, min) features

Panic == [tag |-> "Panic"]
IsPanic(r) == r.tag = "Panic"
Some(v) == [tag |-> "Some", val |-> v]
None == [tag |-> "None"]

\* object_ids[object_ids.len() - 1], object_ids[0]: both index an empty Vec out of
\* bounds (and len() - 1 underflows), which panics in every build
get_service_max_min_oid(svc) ==
    IF Len(svc.objectIds) = 0
    THEN Panic
    ELSE OkValue(Some(<<svc.objectIds[Len(svc.objectIds)], svc.objectIds[1]>>))

get_service_max_min_stats(svc) ==
    IF Len(svc.statRows) = 0
    THEN ErrValue(Generic("No features in max min response", 0))
    ELSE OkValue(Some(svc.statRows[1]))

get_service_max_min(svc) ==
    IF svc.statistics THEN get_service_max_min_stats(svc) ELSE get_service_max_min_oid(svc)

\* ArcGisRestMetadata::from_url: Ok(max_min_oid), Err(e) or a panic
from_url(svc) ==
    IF ~svc.reachable THEN ErrValue([variant |-> "Reqwest", what |-> "request failed", at |-> 0])
    ELSE IF svc.oidField /\ ~svc.pagination THEN get_service_max_min(svc)
    ELSE OkValue(None)

\* ArcGisRestMetadata::queries and QueryIterator::new, given from_url's max_min_oid
queries(svc, max_min_oid) ==
    IF ~(svc.pagination \/ svc.oidField)
    THEN ErrValue(Generic("Service is not valid for scraping", 0))
    ELSE IF ~svc.geometryOk
    THEN ErrValue(Generic("Service is not a Table but geometry type unavailable", 0))
    ELSE IF svc.pagination THEN OkValue("Pagination")
    ELSE IF ~svc.oidField
    THEN ErrValue(Generic("OID is not found but OID queries are required", 0))
    ELSE IF max_min_oid = None
    THEN ErrValue(Generic("Min OID is not found but the value is required for scraping", 0))
    ELSE OkValue("OID")

\* What the start of spool_records (opening the reader; for ArcGis the metadata
\* and the query iterator) gives: Ok, Err(e) or a panic
SpoolSetup(a, src) ==
    IF a = "ArcGis"
    THEN LET m == from_url(src.service)
         IN  IF ~IsOk(m) THEN m
             ELSE LET q == queries(src.service, m.val)
                  IN  IF IsOk(q) THEN OkValue("ready") ELSE q
    ELSE IF src.open THEN OkValue("ready") ELSE ErrValue(SourceError(0))

\* One service per way of scraping (offset pagination, object-id windows found by
\* statistics, object-id windows found by an ids-only query); the row loop does not
\* read the service again once the spooler has started.
ReadyServices ==
    {s \in Services :
        /\ s.reachable /\ s.geometryOk /\ s.oidField
        /\ s.objectIds # <<>> /\ s.statRows # <<>>
        /\ ~(s.pagination /\ s.statistics)}

\* The sources load_data is started on: every service with no feature, the ready
\* services and the files that open with every script of at most MaxRows rows, and
\* the file that does not open.
Sources(a) ==
    IF a = "ArcGis"
    THEN {[open |-> TRUE, bulk |-> 0, tail |-> <<>>, service |-> s] : s \in Services}
         \cup {[open |-> TRUE, bulk |-> 0, tail |-> t, service |-> s] :
                 t \in SeqsUpTo(RowOutcomes(a), MaxRows), s \in ReadyServices}
    ELSE {[open |-> TRUE, bulk |-> 0, tail |-> t, service |-> NoValue] :
                 t \in SeqsUpTo(RowOutcomes(a), MaxRows)}
         \cup {[open |-> FALSE, bulk |-> 0, tail |-> <<>>, service |-> NoValue]}

(***************************************************************************)
(* The load engine: DataLoader::load_data.                                 *)
(***************************************************************************)
Revisions == {"mod", "load"}

\* DataFileOptions::header: only the delimited adapter sends a header line
Header(a) == a = "Delimited"

\* what copy.finish() reports for the lines the stream accepted (COPY ... HEADER
\* true does not count the first line)
ServerRowCount(a, lines) ==
    IF Header(a) /\ Len(lines) > 0 THEN Len(lines) - 1 ELSE Len(lines)

\* the error the drain loop breaks with when copy.send(record) fails:
\* mod.rs wraps it in a Generic message that quotes the record, load.rs converts it
SendFailure(rev, record) ==
    IF rev = "mod"
    THEN Generic("Error trying to send record", record)
    ELSE SqlError("send")

loaderVars == <<pc, result, returned, cur, copy, written, finishCalls, abortCalls,
                abortMsg, joined, firstErr, sendFailed, droppedAt>>
spoolerVars == <<sp, spExit, nxt, emitted, txDropped>>
inputVars == <<revision, adapter, source>>

\* pool.copy_in_raw(..).await?, mpsc_channel(1000), tokio::spawn(..)
OpenCopy ==
    /\ pc = "open"
    /\ \E ok \in BOOLEAN :
         IF ok
         THEN /\ copy' = "open"
              /\ sp' = "run"
              /\ pc' = "recv"
              /\ UNCHANGED returned
         ELSE /\ returned' = ErrValue(SqlError("copy_in_raw"))
              /\ pc' = "returned"
              /\ UNCHANGED <<copy, sp>>
    /\ UNCHANGED <<inputVars, offLoadVars, result, cur, chan, rxClosed, txDropped, written,
                   finishCalls, abortCalls, abortMsg, spExit, nxt, emitted, joined,
                   firstErr, sendFailed, droppedAt>>

\* (mutant) a received Err is kept as the result but the loop goes on receiving
RecvSomeGoesOnAfterErr ==
    /\ pc = "recv"
    /\ chan # <<>>
    /\ LET msg == Head(chan)
       IN  /\ chan' = Tail(chan)
           /\ IF IsOk(msg)
              THEN /\ cur' = msg.val
                   /\ pc' = "send"
                   /\ UNCHANGED <<result, firstErr>>
              ELSE /\ result' = ErrValue(msg.val)
                   /\ firstErr' = msg.val
                   /\ UNCHANGED <<cur, pc>>
    /\ UNCHANGED <<inputVars, offLoadVars, spoolerVars, returned, copy, written, finishCalls,
                   abortCalls, abortMsg, joined, sendFailed, droppedAt, rxClosed>>

\* rx.recv().await returned Some(message): one turn of the drain loop up to the
\* next await; a received Err breaks the loop and rx.close() follows at once
RecvSome ==
    /\ pc = "recv"
    /\ chan # <<>>
    /\ LET msg == Head(chan)
       IN  /\ chan' = Tail(chan)
           /\ IF IsOk(msg)
              THEN /\ cur' = msg.val
                   /\ pc' = "send"
                   /\ UNCHANGED <<result, rxClosed, firstErr>>
              ELSE /\ result' = ErrValue(msg.val)
                   /\ firstErr' = msg.val
                   /\ rxClosed' = TRUE
                   /\ pc' = "join"
                   /\ UNCHANGED cur
    /\ UNCHANGED <<inputVars, offLoadVars, spoolerVars, returned, copy, written, finishCalls,
                   abortCalls, abortMsg, joined, sendFailed, droppedAt>>

\* (mutant) recv reports the closure as soon as the sender is gone, buffered
\* messages or not
RecvNoneEarly ==
    /\ pc = "recv"
    /\ txDropped
    /\ result' = OkValue(<<>>)
    /\ rxClosed' = TRUE
    /\ pc' = "join"
    /\ UNCHANGED <<inputVars, offLoadVars, spoolerVars, returned, cur, chan, copy, written,
                   finishCalls, abortCalls, abortMsg, joined, firstErr, sendFailed,
                   droppedAt>>

\* rx.recv().await returned None: the channel is empty and the sender is gone
RecvNone ==
    /\ pc = "recv"
    /\ chan = <<>>
    /\ txDropped
    /\ result' = OkValue(<<>>)
    /\ rxClosed' = TRUE
    /\ pc' = "join"
    /\ UNCHANGED <<inputVars, offLoadVars, spoolerVars, returned, cur, chan, copy, written,
                   finishCalls, abortCalls, abortMsg, joined, firstErr, sendFailed,
                   droppedAt>>

\* (mutant) an accepted line is put in front of the lines written before it
CopySendReordered ==
    /\ pc = "send"
    /\ \E ok \in BOOLEAN :
         IF ok
         THEN /\ written' = <<cur>> \o written
              /\ pc' = "recv"
              /\ UNCHANGED <<result, rxClosed, sendFailed>>
         ELSE /\ result' = ErrValue(SendFailure(revision, cur))
              /\ sendFailed' = TRUE
              /\ rxClosed' = TRUE
              /\ pc' = "join"
              /\ UNCHANGED written
    /\ UNCHANGED <<inputVars, offLoadVars, spoolerVars, returned, cur, chan, copy, finishCalls,
                   abortCalls, abortMsg, joined, firstErr, droppedAt>>

\* (mutant) a failed copy.send is skipped and the loop goes on with the next message
CopySendIgnoresFailure ==
    /\ pc = "send"
    /\ \E ok \in BOOLEAN :
         IF ok
         THEN /\ written' = Append(written, cur)
              /\ UNCHANGED sendFailed
         ELSE /\ sendFailed' = TRUE
              /\ UNCHANGED written
    /\ pc' = "recv"
    /\ UNCHANGED <<inputVars, offLoadVars, spoolerVars, result, rxClosed, returned, cur, chan, copy,
                   finishCalls, abortCalls, abortMsg, joined, firstErr, droppedAt>>

\* copy.send(record.as_bytes()).await: the line is accepted, or the send fails and
\* the loop breaks with the error, rx.close() following at once
CopySend ==
    /\ pc = "send"
    /\ \E ok \in BOOLEAN :
         IF ok
         THEN /\ written' = Append(written, cur)
              /\ pc' = "recv"
              /\ UNCHANGED <<result, rxClosed, sendFailed>>
         ELSE /\ result' = ErrValue(SendFailure(revision, cur))
              /\ sendFailed' = TRUE
              /\ rxClosed' = TRUE
              /\ pc' = "join"
              /\ UNCHANGED written
    /\ UNCHANGED <<inputVars, offLoadVars, spoolerVars, returned, cur, chan, copy, finishCalls,
                   abortCalls, abortMsg, joined, firstErr, droppedAt>>

\* (mutant) the final match runs without awaiting the spooler task
JoinSpoolerWithoutAwait ==
    /\ pc = "join"
    /\ joined' = spExit
    /\ IF IsOk(result)
       THEN /\ finishCalls' = finishCalls + 1
            /\ pc' = "finishing"
            /\ UNCHANGED <<abortCalls, abortMsg>>
       ELSE /\ abortCalls' = abortCalls + 1
            /\ abortMsg' = Display(result.val)
            /\ pc' = "aborting"
            /\ UNCHANGED finishCalls
    /\ UNCHANGED <<inputVars, offLoadVars, spoolerVars, result, returned, cur, chan, rxClosed,
                   copy, written, firstErr, sendFailed, droppedAt>>

\* spool_handle.await completes (the outcome is only printed), and the final match
\* calls copy.finish() or copy.abort(format!("{}", error))
JoinSpooler ==
    /\ pc = "join"
    /\ sp = "done"
    /\ joined' = spExit
    /\ IF IsOk(result)
       THEN /\ finishCalls' = finishCalls + 1
            /\ pc' = "finishing"
            /\ UNCHANGED <<abortCalls, abortMsg>>
       ELSE /\ abortCalls' = abortCalls + 1
            /\ abortMsg' = Display(result.val)
            /\ pc' = "aborting"
            /\ UNCHANGED finishCalls
    /\ UNCHANGED <<inputVars, offLoadVars, spoolerVars, result, returned, cur, chan, rxClosed,
                   copy, written, firstErr, sendFailed, droppedAt>>

\* Ok(copy.finish().await?)
FinishDone ==
    /\ pc = "finishing"
    /\ \E ok \in BOOLEAN :
         IF ok
         THEN /\ returned' = OkValue(ServerRowCount(adapter, written))
              /\ copy' = "finished"
         ELSE /\ returned' = ErrValue(SqlError("finish"))
              /\ copy' = "released"
    /\ pc' = "returned"
    /\ UNCHANGED <<inputVars, offLoadVars, spoolerVars, result, cur, chan, rxClosed, written,
                   finishCalls, abortCalls, abortMsg, joined, firstErr, sendFailed,
                   droppedAt>>

\* copy.abort(..).await?; Err(error)
AbortDone ==
    /\ pc = "aborting"
    /\ \E ok \in BOOLEAN :
         IF ok
         THEN /\ returned' = result
              /\ copy' = "aborted"
         ELSE /\ returned' = ErrValue(SqlError("abort"))
              /\ copy' = "released"
    /\ pc' = "returned"
    /\ UNCHANGED <<inputVars, offLoadVars, spoolerVars, result, cur, chan, rxClosed, written,
                   finishCalls, abortCalls, abortMsg, joined, firstErr, sendFailed,
                   droppedAt>>

\* (mutant) the receiver outlives the dropped future
DropFutureKeepsReceiver ==
    /\ pc \in {"open", "recv", "send", "join", "finishing", "aborting"}
    /\ pc' = "dropped"
    /\ droppedAt' = pc
    /\ copy' = IF copy = "open" THEN "released" ELSE copy
    /\ UNCHANGED <<inputVars, offLoadVars, spoolerVars, result, returned, cur, written, chan, rxClosed,
                   finishCalls, abortCalls, abortMsg, joined, firstErr, sendFailed>>

\* The caller drops the load_data future at one of its awaits: rx goes (and with
\* it the buffered messages), the copy stream is released without finish, and the
\* JoinHandle is dropped, which detaches the spooler task.
DropFuture ==
    /\ pc \in {"open", "recv", "send", "join", "finishing", "aborting"}
    /\ pc' = "dropped"
    /\ droppedAt' = pc
    /\ rxClosed' = TRUE
    /\ chan' = <<>>
    /\ copy' = IF copy = "open" THEN "released" ELSE copy
    /\ UNCHANGED <<inputVars, offLoadVars, spoolerVars, result, returned, cur, written,
                   finishCalls, abortCalls, abortMsg, joined, firstErr, sendFailed>>

(***************************************************************************)
(* The spooler task: spool_records of the adapter, then drop(tx).          *)
(***************************************************************************)
\* csv_result_iter_to_string: the row's line, or the first cell error
csv_result_iter_to_string(outcome, i) ==
    IF outcome = "ok" THEN OkValue(Line(i)) ELSE ErrValue(SourceError(i))

\* the spooler task is over: the async block returns (or unwinds) and tx is dropped
SpoolerEnds(how) ==
    /\ sp' = "done"
    /\ spExit' = how
    /\ txDropped' = TRUE

\* record_channel.send(message).await, and whether the adapter returns after it.
\* (mutant) a send waiting on a full channel is not woken when the receiver closes
ChannelSendSleepsThroughClose(message, thenReturn) ==
    IF rxClosed /\ Len(chan) < ChannelCapacity
    THEN /\ SpoolerEnds("send_error")
         /\ UNCHANGED <<chan, emitted, nxt>>
    ELSE /\ Len(chan) < ChannelCapacity
         /\ chan' = Append(chan, message)
         /\ emitted' = Append(emitted, message)
         /\ IF thenReturn
            THEN SpoolerEnds("none") /\ UNCHANGED nxt
            ELSE nxt' = nxt + 1 /\ UNCHANGED <<sp, spExit, txDropped>>

\* (mutant) the channel accepts one message more than its capacity
ChannelSendOverCapacity(message, thenReturn) ==
    IF rxClosed
    THEN /\ SpoolerEnds("send_error")
         /\ UNCHANGED <<chan, emitted, nxt>>
    ELSE /\ Len(chan) <= ChannelCapacity
         /\ chan' = Append(chan, message)
         /\ emitted' = Append(emitted, message)
         /\ IF thenReturn
            THEN SpoolerEnds("none") /\ UNCHANGED nxt
            ELSE nxt' = nxt + 1 /\ UNCHANGED <<sp, spExit, txDropped>>

\* The send fails once the receiver is closed or dropped, waits while the channel
\* is full, and otherwise appends the message.  A failed send ends spool_records
\* with Some(SendError) in every adapter.
ChannelSend(message, thenReturn) ==
    IF rxClosed
    THEN /\ SpoolerEnds("send_error")
         /\ UNCHANGED <<chan, emitted, nxt>>
    ELSE /\ Len(chan) < ChannelCapacity
         /\ chan' = Append(chan, message)
         /\ emitted' = Append(emitted, message)
         /\ IF thenReturn
            THEN SpoolerEnds("none") /\ UNCHANGED nxt
            ELSE nxt' = nxt + 1 /\ UNCHANGED <<sp, spExit, txDropped>>

\* send_error_message(record_channel, error): send Err(error); the caller returns
send_error_message(error) == ChannelSend(ErrValue(error), TRUE)

\* The start of spool_records: open the reader (for ArcGis: discover the metadata
\* and build the query iterator).  A failure is sent as Err and the adapter
\* returns; a panic unwinds the task.
SpoolStart ==
    /\ sp = "run"
    /\ nxt = 0
    /\ LET setup == SpoolSetup(adapter, source)
       IN  CASE IsOk(setup) ->
                  /\ nxt' = 1
                  /\ UNCHANGED <<sp, spExit, txDropped, chan, emitted>>
             [] IsErr(setup) -> send_error_message(setup.val)
             [] IsPanic(setup) ->
                  /\ SpoolerEnds("panic")
                  /\ UNCHANGED <<chan, emitted, nxt>>
    /\ UNCHANGED <<inputVars, offLoadVars, loaderVars, rxClosed>>

\* One turn of the adapter's row loop: read the next row and send its message.
SpoolRow ==
    /\ sp = "run"
    /\ nxt \in 1..SourceLen(source)
    /\ LET outcome == RowOutcome(source, nxt)
       IN  CASE outcome = "ok" ->
                  ChannelSend(csv_result_iter_to_string(outcome, nxt), FALSE)
             [] outcome = "read_err" ->
                  send_error_message(SourceError(nxt))
             [] outcome = "row_err" ->
                  ChannelSend(csv_result_iter_to_string(outcome, nxt),
                              ~ContinuesAfterRowErr(adapter))
    /\ UNCHANGED <<inputVars, offLoadVars, loaderVars, rxClosed>>

\* The source is exhausted: spool_records returns None and tx is dropped.
SpoolEnd ==
    /\ sp = "run"
    /\ nxt = SourceLen(source) + 1
    /\ SpoolerEnds("none")
    /\ UNCHANGED <<inputVars, offLoadVars, loaderVars, rxClosed, chan, emitted, nxt>>

(***************************************************************************)
(* The REST spooler's query loop and its retrying fetch.                   *)
(***************************************************************************)
QueryFormats == {"geojson", "json", "NotSupported"}

\* the URL of the i-th query of the query iterator
QueryUrl(i) == "query" \o ToString(i)

\* the features of the collection the service answers attempt n of query i with
FeaturesOf(i, n) == <<[url |-> QueryUrl(i), attempt |-> n]>>

\* What the service may answer attempt n of query i with: no response at all
\* (status 0: the request could not be sent), a status other than 200, or 200
\* with a body that is a feature collection in the requested format, a GeoJSON
\* feature, a GeoJSON geometry, or not the JSON expected.
Responses(i, n) ==
    {[status |-> st, body |-> "none", features |-> <<>>] : st \in {0, 204, 500}}
        \cup {[status |-> 200, body |-> b,
               features |-> IF b = "collection" THEN FeaturesOf(i, n) ELSE <<>>] :
                  b \in {"collection", "feature", "geometry", "malformed"}}

\* QueryFormat::try_query, given the response to client.get(query).send()
try_query(format, url, response) ==
    CASE response.status = 0 -> ErrValue(Reqwest("send"))
      [] response.status \notin {0, 200} -> ErrValue(ArcGis(url, response.status))
      [] OTHER ->
           CASE format = "NotSupported" ->
                    ErrValue(Generic("Cannot read the query response for format", 0))
             [] response.body = "collection" -> OkValue(response.features)
             [] format = "geojson" /\ response.body = "geometry" ->
                    ErrValue(Generic("Expected a Feature collect but got Geometry", 0))
             [] format = "geojson" /\ response.body = "feature" ->
                    ErrValue(Generic("Expected a Feature collect but got Feature", 0))
             [] OTHER -> ErrValue(Reqwest("json"))

\* no query iterator is under study
pagingIdle ==
    /\ metadata = NoValue
    /\ iter = NoValue
    /\ yielded = <<>>

\* no function is under study
callIdle ==
    /\ arg = NoValue
    /\ ret = NoValue

restIdle ==
    /\ query_format = "geojson"
    /\ queryCount = 0
    /\ query = 0
    /\ attempts = 0
    /\ served = [i \in 1..MaxQueries |-> <<>>]
    /\ fetchResult = [i \in 1..MaxQueries |-> NoValue]
    /\ fetched = <<>>
    /\ sent = <<>>
    /\ rest = "idle"

loadVars == <<inputVars, loaderVars, spoolerVars, chan, rxClosed>>

\* (mutant) `attempts` is kept from one query to the next
FetchQueryKeepsAttempts ==
    /\ rest = "next"
    /\ query <= queryCount
    /\ rest' = "loop"
    /\ UNCHANGED <<loadVars, pagingVars, callVars, attempts, query_format, queryCount, query,
                   served, fetchResult, fetched, sent>>

\* `for query in queries`: the iterator yields the next query, and
\* fetch_query enters loop_until_successful with attempts = 0
FetchQuery ==
    /\ rest = "next"
    /\ query <= queryCount
    /\ attempts' = 0
    /\ rest' = "loop"
    /\ UNCHANGED <<loadVars, pagingVars, callVars, query_format, queryCount, query, served,
                   fetchResult, fetched, sent>>

\* (mutant) every error of an attempt is retried, not only the ArcGis status error
LoopAttemptRetriesEveryError ==
    /\ rest = "loop"
    /\ attempts' = attempts + 1
    /\ IF attempts' > MAX_RETRY
       THEN /\ fetchResult' = [fetchResult EXCEPT ![query] =
                   ErrValue(Generic("Exceeded max number of retries for a query", MAX_RETRY))]
            /\ rest' = "failed"
            /\ UNCHANGED served
       ELSE \E response \in Responses(query, attempts') :
              LET got == try_query(query_format, QueryUrl(query), response)
              IN  /\ served' = [served EXCEPT ![query] = Append(@, response)]
                  /\ IF IsOk(got)
                     THEN fetchResult' = [fetchResult EXCEPT ![query] = got] /\ rest' = "features"
                     ELSE UNCHANGED <<fetchResult, rest>>
    /\ sent' = IF rest' = "failed" THEN Append(sent, fetchResult'[query]) ELSE sent
    /\ UNCHANGED <<loadVars, pagingVars, callVars, query_format, queryCount, query, fetched>>

\* (mutant) a query that failed for good is given up, its error is sent and the
\* loop goes on with the next query
LoopAttemptSkipsFailedQuery ==
    /\ rest = "loop"
    /\ attempts' = attempts + 1
    /\ IF attempts' > MAX_RETRY
       THEN /\ fetchResult' = [fetchResult EXCEPT ![query] =
                   ErrValue(Generic("Exceeded max number of retries for a query", MAX_RETRY))]
            /\ rest' = "next"
            /\ query' = query + 1
            /\ UNCHANGED served
       ELSE \E response \in Responses(query, attempts') :
              LET got == try_query(query_format, QueryUrl(query), response)
              IN  /\ served' = [served EXCEPT ![query] = Append(@, response)]
                  /\ CASE IsOk(got) ->
                            /\ fetchResult' = [fetchResult EXCEPT ![query] = got]
                            /\ rest' = "features"
                            /\ UNCHANGED query
                       [] IsErr(got) /\ got.val.variant = "ArcGis" ->
                            UNCHANGED <<fetchResult, rest, query>>
                       [] OTHER ->
                            /\ fetchResult' = [fetchResult EXCEPT ![query] = got]
                            /\ rest' = "next"
                            /\ query' = query + 1
    /\ sent' = IF rest' = "next" THEN Append(sent, fetchResult'[query]) ELSE sent
    /\ UNCHANGED <<loadVars, pagingVars, callVars, query_format, queryCount, fetched>>

\* One turn of the loop of loop_until_successful: count the attempt, give up
\* beyond MAX_RETRY, otherwise try the query; retry on an ArcGis error, return any
\* other error, break with the collection.  On an error the spooler hands it to
\* send_error_message and returns, whether the channel took it or not.
LoopAttempt ==
    /\ rest = "loop"
    /\ attempts' = attempts + 1
    /\ IF attempts' > MAX_RETRY
       THEN /\ fetchResult' = [fetchResult EXCEPT ![query] =
                   ErrValue(Generic("Exceeded max number of retries for a query", MAX_RETRY))]
            /\ rest' = "failed"
            /\ UNCHANGED served
       ELSE \E response \in Responses(query, attempts') :
              LET got == try_query(query_format, QueryUrl(query), response)
              IN  /\ served' = [served EXCEPT ![query] = Append(@, response)]
                  /\ CASE IsOk(got) ->
                            fetchResult' = [fetchResult EXCEPT ![query] = got] /\ rest' = "features"
                       [] IsErr(got) /\ got.val.variant = "ArcGis" ->
                            UNCHANGED <<fetchResult, rest>>
                       [] OTHER ->
                            fetchResult' = [fetchResult EXCEPT ![query] = got] /\ rest' = "failed"
    /\ sent' = IF rest' = "failed" THEN Append(sent, fetchResult'[query]) ELSE sent
    /\ UNCHANGED <<loadVars, pagingVars, callVars, query_format, queryCount, query, fetched>>

\* the row of a feature of a collection
RowOf(feature) == OkValue(feature)

\* `for feature in feature_collection`: the features are walked in order and the
\* row of each is sent.  The walk ends the spooler early when a feature's geometry
\* or properties do not convert (the error is handed to send_error_message) or
\* when the channel refuses a row (the receiver is closed); otherwise the query
\* loop goes on to the next query.
SpoolFeatures ==
    /\ rest = "features"
    /\ fetched' = fetched \o fetchResult[query].val
    /\ LET features == fetchResult[query].val
       IN  \E n \in 0..Len(features) : \E how \in {"walked", "bad feature", "refused"} :
              /\ how = "walked" <=> n = Len(features)
              /\ sent' = sent \o [k \in 1..n |-> RowOf(features[k])]
                           \o (CASE how = "walked" -> <<>>
                                 [] how = "bad feature" ->
                                      <<ErrValue(Generic("feature", n + 1))>>
                                 [] how = "refused" -> <<RowOf(features[n + 1])>>)
              /\ rest' = CASE how = "walked" -> "next"
                           [] how = "bad feature" -> "failed"
                           [] how = "refused" -> "closed"
              /\ query' = IF how = "walked" THEN query + 1 ELSE query
    /\ UNCHANGED <<loadVars, pagingVars, callVars, query_format, queryCount, attempts, served,
                   fetchResult>>

\* the query iterator is exhausted: spool_records returns None
QueriesDone ==
    /\ rest = "next"
    /\ query > queryCount
    /\ rest' = "done"
    /\ UNCHANGED <<loadVars, pagingVars, callVars, query_format, queryCount, query, attempts,
                   served, fetchResult, fetched, sent>>

(***************************************************************************)
(* The query iterator of a REST service (arcgis/metadata.rs).              *)
(***************************************************************************)
\* (mutant) advancedQueryCapabilities is not consulted
supports_paginationDirectOnly(direct, advanced) == direct = "true"

\* json_metadata.supports_pagination(): the supportsPagination member, or the
\* supportsPagination key of advancedQueryCapabilities; each is "true", "false" or
\* "absent"
supports_pagination(direct, advanced) == direct = "true" \/ advanced = "true"

\* the ways a metadata document states (or does not state) pagination support
PaginationFlags ==
    {<<"absent", "absent">>, <<"true", "absent">>, <<"absent", "true">>,
     <<"false", "true">>, <<"false", "false">>}

\* ArcGisRestMetadata::scrape_count
scrape_count(max_record_count) ==
    IF max_record_count <= ScrapeLimit THEN max_record_count ELSE ScrapeLimit

RECURSIVE Ascending(_)
\* the ids of a set, lowest first (the order of an ids-only response)
Ascending(ids) ==
    IF ids = {} THEN <<>>
    ELSE LET low == CHOOSE o \in ids : \A p \in ids : o <= p
         IN  <<low>> \o Ascending(ids \ {low})

\* The service with the features whose object ids are `ids`, a count response of
\* `count`, maxRecordCount `m`, and the given pagination, statistics, object-id
\* field and geometry answers
Service(ids, count, m, flags, stats, oid, geom) ==
    [ reachable |-> TRUE,
      geometryOk |-> geom,
      paginationDirect |-> flags[1],
      paginationAdvanced |-> flags[2],
      pagination |-> supports_pagination(flags[1], flags[2]),
      statistics |-> stats,
      oidField |-> oid,
      objectIds |-> Ascending(ids),
      statRows |-> IF ids = {} THEN <<>>
                   ELSE LET s == Ascending(ids) IN << <<s[Len(s)], s[1]>> >>,
      source_count |-> count,
      max_record_count |-> m ]

\* The services whose queries are iterated: every set of object ids up to MaxOid
\* with every maxRecordCount up to MaxRecordCount, and paginated services whose
\* count and maxRecordCount lie around ScrapeLimit; kept are those for which
\* from_url returns the metadata.
PagedServices ==
    LET small == {Service(ids, Cardinality(ids), m, f, st, oid, g) :
                     ids \in SUBSET (1..MaxOid), m \in 1..MaxRecordCount,
                     f \in PaginationFlags, st \in BOOLEAN, oid \in BOOLEAN,
                     g \in BOOLEAN}
        large == {Service({}, n, m, <<"true", "absent">>, FALSE, FALSE, TRUE) :
                     n \in {ScrapeLimit - 1, ScrapeLimit, ScrapeLimit + 1, 2 * ScrapeLimit + 1},
                     m \in {ScrapeLimit, ScrapeLimit + 1}}
    IN  {s \in small \cup large : IsOk(from_url(s))}

\* QueryIterator::new behind ArcGisRestMetadata::queries: the iterator's fields
QueryIterator_new(m) ==
    LET max_min_oid == from_url(m).val
        mode == queries(m, max_min_oid)
    IN  IF IsErr(mode) THEN mode
        ELSE [ tag |-> mode.val,
               min_oid |-> IF mode.val = "OID" THEN max_min_oid.val[2] ELSE 0,
               scrape_count |-> scrape_count(m.max_record_count),
               remaining_records_count |-> m.source_count,
               query_index |-> 0,
               ended |-> FALSE ]

\* metadata.queries()
Queries ==
    /\ metadata # NoValue
    /\ iter = NoValue
    /\ iter' = QueryIterator_new(metadata)
    /\ UNCHANGED <<loadVars, restVars, callVars, metadata, yielded>>

\* (mutant) the upper bound of an object-id window is the next window's lower bound
NextQueryOverlapping(it) ==
    IF it.tag = "OID"
    THEN LET lower_bound == it.min_oid + (it.query_index * it.scrape_count)
         IN  [mode |-> "OID", lower |-> lower_bound, upper |-> lower_bound + it.scrape_count]
    ELSE [mode |-> "Pagination", resultOffset |-> it.query_index * it.scrape_count,
          resultRecordCount |-> it.scrape_count]

\* the query Iterator::next builds from the iterator's fields
NextQuery(it) ==
    IF it.tag = "OID"
    THEN LET lower_bound == it.min_oid + (it.query_index * it.scrape_count)
         IN  [mode |-> "OID", lower |-> lower_bound, upper |-> lower_bound + it.scrape_count - 1]
    ELSE [mode |-> "Pagination", resultOffset |-> it.query_index * it.scrape_count,
          resultRecordCount |-> it.scrape_count]

\* The services a query iterator may be built for when maxRecordCount is whatever
\* the metadata document says: the small services of PagedServices, and the same
\* with a maxRecordCount of 0 or -1
AnyCountServices ==
    {s \in {Service(ids, Cardinality(ids), m, f, st, oid, g) :
               ids \in SUBSET (1..MaxOid), m \in (0 - 1)..MaxRecordCount,
               f \in PaginationFlags, st \in BOOLEAN, oid \in BOOLEAN, g \in BOOLEAN} :
        IsOk(from_url(s))}

\* the longest run of queries that is followed: one more than any service with a
\* positive maxRecordCount yields
MaxYielded == MaxOid + 1

\* (mutant) the iterator stops only when remaining_records_count < 0
IteratorNextOneMore ==
    /\ iter # NoValue
    /\ iter.tag \in {"OID", "Pagination"}
    /\ ~iter.ended
    /\ IF iter.remaining_records_count < 0
       THEN iter' = [iter EXCEPT !.ended = TRUE] /\ UNCHANGED yielded
       ELSE /\ Len(yielded) < MaxYielded
            /\ yielded' = Append(yielded, NextQuery(iter))
            /\ iter' = [iter EXCEPT !.query_index = @ + 1,
                                    !.remaining_records_count = @ - iter.scrape_count]
    /\ UNCHANGED <<loadVars, restVars, callVars, metadata>>

\* Iterator::next: None once remaining_records_count <= 0; otherwise the query of
\* the current index, the index advanced and the remaining count reduced
IteratorNext ==
    /\ iter # NoValue
    /\ iter.tag \in {"OID", "Pagination"}
    /\ ~iter.ended
    /\ IF iter.remaining_records_count <= 0
       THEN iter' = [iter EXCEPT !.ended = TRUE] /\ UNCHANGED yielded
       ELSE /\ Len(yielded) < MaxYielded
            /\ yielded' = Append(yielded, NextQuery(iter))
            /\ iter' = [iter EXCEPT !.query_index = @ + 1,
                                    !.remaining_records_count = @ - iter.scrape_count]
    /\ UNCHANGED <<loadVars, restVars, callVars, metadata>>

(***************************************************************************)
(* DataLoader::new (mod.rs): the adapter chosen for an options document.   *)
(***************************************************************************)
\* A file path is a sequence of tokens: "/" separates components, "." is a dot,
\* every other token is a run of letters.
ExtensionWords ==
    {"avro", "txt", "csv", "xlsx", "xls", "geojson", "ipc", "feather", "parquet", "shp",
     "CSV", "zip"}

PathTokens == {"data", ".", "/"} \cup ExtensionWords

RECURSIVE Components(_)
\* Path::components: the non-empty runs between separators
Components(path) ==
    IF path = <<>> THEN <<>>
    ELSE LET seps == {k \in 1..Len(path) : path[k] = "/"}
             k == IF seps = {} THEN Len(path) + 1
                  ELSE CHOOSE j \in seps : \A l \in seps : j <= l
             head == SubSeq(path, 1, k - 1)
         IN  (IF head = <<>> THEN <<>> ELSE <<head>>)
                 \o Components(SubSeq(path, k + 1, Len(path)))

\* a component other than "."
NotCurDir(component) == component # <<".">>

\* Path::file_name: the last component, unless it is ".." (a "." component is
\* skipped by components())
file_name(path) ==
    LET named == SelectSeq(Components(path), NotCurDir)
    IN  IF named = <<>> THEN None
        ELSE IF named[Len(named)] = <<".", ".">> THEN None
        ELSE Some(named[Len(named)])

\* Path::extension: what follows the last dot of the file name; None when there is
\* no file name, no dot, or only a leading dot
extension(path) ==
    LET name == file_name(path)
    IN  IF name = None THEN None
        ELSE LET dots == {k \in 1..Len(name.val) : name.val[k] = "."}
                 last == CHOOSE j \in dots : \A l \in dots : l <= j
             IN  IF dots = {} THEN None
                 ELSE IF last = 1 THEN None
                 ELSE Some(SubSeq(name.val, last + 1, Len(name.val)))

\* the match on the extension
AdapterOfExtension(ext) ==
    CASE ext = <<"avro">> -> "Avro"
      [] ext \in {<<"txt">>, <<"csv">>} -> "Delimited"
      [] ext \in {<<"xlsx">>, <<"xls">>} -> "Excel"
      [] ext = <<"geojson">> -> "GeoJson"
      [] ext \in {<<"ipc">>, <<"feather">>} -> "Ipc"
      [] ext = <<"parquet">> -> "Parquet"
      [] ext = <<"shp">> -> "Shape"
      [] OTHER -> "none"

JsonError == [variant |-> "Json", what |-> "from_str", at |-> 0]

\* serde_json::from_str into the adapter's options: every member of the options
\* struct must be there with its type (ArcGisDataOptions: url, a URL;
\* DelimitedDataOptions: file_path, delimiter, qualified; ExcelOptions: file_path,
\* sheet_name; the others: file_path)
Deserialized(variant, options) ==
    LET complete ==
            CASE variant = "ArcGis" -> options.url = "valid"
              [] variant = "Delimited" -> options.members = "delimiter, qualified"
              [] variant = "Excel" -> options.members = "sheet_name"
              [] OTHER -> TRUE
    IN  IF complete THEN OkValue(variant) ELSE ErrValue(JsonError)

\* (mutant) file_path is looked at before url
DataLoader_newFilePathFirst(options) ==
    IF options.kind # "object"
    THEN ErrValue(Generic("Source data options must be an object", 0))
    ELSE IF options.file_path.tag = "string"
              /\ extension(options.file_path.val) # None
              /\ AdapterOfExtension(extension(options.file_path.val).val) # "none"
    THEN Deserialized(AdapterOfExtension(extension(options.file_path.val).val), options)
    ELSE IF options.url # "absent" THEN Deserialized("ArcGis", options)
    ELSE ErrValue(Generic("Could not extract a data loader", 0))

\* DataLoader::new
DataLoader_new(options) ==
    IF options.kind # "object"
    THEN ErrValue(Generic("Source data options must be an object", 0))
    ELSE IF options.url # "absent" THEN Deserialized("ArcGis", options)
    ELSE IF options.file_path.tag # "string"
    THEN ErrValue(Generic("Source data options must contain a string file_path property", 0))
    ELSE LET ext == extension(options.file_path.val)
         IN  IF ext = None
             THEN ErrValue(Generic("Could not extract a valid file extension", 0))
             ELSE IF AdapterOfExtension(ext.val) = "none"
             THEN ErrValue(Generic("Could not extract a data loader for the extension", 0))
             ELSE Deserialized(AdapterOfExtension(ext.val), options)

\* file paths longer than MaxPathLen: a directory with a dot in its name, a
\* trailing separator, a trailing "." component, a name of dots
LongPaths ==
    { <<"data", ".", "csv", "/", "data">>,
      <<"data", ".", "zip", "/", "data", ".", "shp">>,
      <<"data", ".", "parquet", "/">>,
      <<"data", ".", "avro", "/", ".">>,
      <<"data", ".", "avro", "/", ".", ".">>,
      <<"data", ".", "zip", ".", "xlsx">>,
      <<"data", ".", "csv", ".">>,
      <<"/", "data", "/", ".", "geojson">>,
      <<"/", "data", "/", "data", ".", "feather">> }

\* The options documents: documents that are no object; objects with a url (a URL
\* or not) with and without a file_path; objects without url whose file_path is
\* absent, not a string, or any path of at most MaxPathLen tokens or of
\* LongPaths, with each set of further members
OptionsDocuments ==
    LET Doc(k, u, f, m) == [kind |-> k, url |-> u, file_path |-> f, members |-> m]
        absent == [tag |-> "absent"]
        number == [tag |-> "number"]
        Str(p) == [tag |-> "string", val |-> p]
        paths == SeqsUpTo(PathTokens, MaxPathLen) \cup LongPaths
    IN  {Doc(k, "absent", absent, "none") : k \in {"array", "string", "null"}}
        \cup {Doc("object", u, f, "none") :
                 u \in {"valid", "invalid"},
                 f \in {absent, number, Str(<<"data", ".", "csv">>), Str(<<"data">>)}}
        \cup {Doc("object", "absent", f, m) :
                 f \in {absent, number} \cup {Str(p) : p \in paths},
                 m \in {"none", "delimiter, qualified", "sheet_name"}}

\* DataLoader::new(&options) is called and returns
NewLoader ==
    /\ arg # NoValue
    /\ ret = NoValue
    /\ ret' = DataLoader_new(arg)
    /\ UNCHANGED <<loadVars, restVars, pagingVars, arg>>

(***************************************************************************)
(* Column and table names (analyze.rs).  A name is a sequence of           *)
(* characters.                                                             *)
(***************************************************************************)
UpperChars == {"A", "Z"}
LowerChars == {"a", "z"}
DigitChars == {"0", "9"}
NameChars == UpperChars \cup LowerChars \cup DigitChars \cup {"_", ".", " ", "\n"}

\* the letters A-Z and a-z, in order
UpperLetters ==
    <<"A", "B", "C", "D", "E", "F", "G", "H", "I", "J", "K", "L", "M",
      "N", "O", "P", "Q", "R", "S", "T", "U", "V", "W", "X", "Y", "Z">>

LowerLetters ==
    <<"a", "b", "c", "d", "e", "f", "g", "h", "i", "j", "k", "l", "m",
      "n", "o", "p", "q", "r", "s", "t", "u", "v", "w", "x", "y", "z">>

IsUpper(c) == \E k \in 1..Len(UpperLetters) : UpperLetters[k] = c

IsLower(c) == \E k \in 1..Len(LowerLetters) : LowerLetters[k] = c

\* char::to_lowercase
LowerOf(c) ==
    IF IsUpper(c) THEN LowerLetters[CHOOSE k \in 1..Len(UpperLetters) : UpperLetters[k] = c]
    ELSE c

\* str::to_lowercase
to_lowercase(name) == [k \in 1..Len(name) |-> LowerOf(name[k])]

\* SQL_NAME_REGEX.is_match: ^[A-Z_][A-Z_0-9]{1,64}$, case-sensitive
SQL_NAME_REGEX(name) ==
    /\ Len(name) \in 2..(NameTailMax + 1)
    /\ (IsUpper(name[1]) \/ name[1] = "_")
    /\ \A k \in 2..Len(name) : IsUpper(name[k]) \/ name[k] \in DigitChars \cup {"_"}

\* SQL_NAME_CLEAN_REGEX1.replace(name, ""): \..+$ - the leftmost dot that is
\* followed by at least one character and by no line feed up to the end is
\* removed together with what follows it
CleanRegex1(name) ==
    LET starts == {k \in 1..(Len(name) - 1) :
                      /\ name[k] = "."
                      /\ \A j \in (k + 1)..Len(name) : name[j] # "\n"}
    IN  IF starts = {} THEN name
        ELSE SubSeq(name, 1, (CHOOSE k \in starts : \A j \in starts : k <= j) - 1)

\* SQL_NAME_CLEAN_REGEX2.replace_all(name, "_"): [^A-Z_0-9], case-insensitive
CleanRegex2(name) ==
    [k \in 1..Len(name) |->
        IF IsUpper(name[k]) \/ IsLower(name[k]) \/ name[k] \in DigitChars \cup {"_"}
        THEN name[k] ELSE "_"]

\* SQL_NAME_CLEAN_REGEX3.replace(name, "_$1"): ^([0-9])
CleanRegex3(name) ==
    IF name # <<>> /\ name[1] \in DigitChars THEN <<"_">> \o name ELSE name

RECURSIVE CleanRegex4(_)
\* SQL_NAME_CLEAN_REGEX4.replace_all(name, "_"): _{2,}
CleanRegex4(name) ==
    IF Len(name) < 2 THEN name
    ELSE IF name[1] = "_" /\ name[2] = "_" THEN CleanRegex4(Tail(name))
    ELSE <<name[1]>> \o CleanRegex4(Tail(name))

\* clean_sql_name
clean_sql_name(name) ==
    LET cleaned == CleanRegex4(CleanRegex3(CleanRegex2(CleanRegex1(name))))
    IN  IF cleaned = <<>> THEN None ELSE Some(to_lowercase(cleaned))

\* ColumnMetadata::new: the name of the column made, or the error
ColumnMetadata_new(name) ==
    IF SQL_NAME_REGEX(name) THEN OkValue(to_lowercase(name))
    ELSE IF clean_sql_name(name) = None
    THEN ErrValue(Generic("Column name was empty after cleaning", 0))
    ELSE OkValue(clean_sql_name(name).val)

\* Schema::new: the table name of the schema made, or the error
Schema_new(table_name) ==
    IF SQL_NAME_REGEX(table_name) THEN OkValue(to_lowercase(table_name))
    ELSE IF clean_sql_name(table_name) = None
    THEN ErrValue(Generic("Table Name was empty after cleaning", 0))
    ELSE OkValue(clean_sql_name(table_name).val)

\* names at and beyond the longest the fast path takes
LongNames == {[k \in 1..n |-> "A"] : n \in {NameTailMax, NameTailMax + 1, NameTailMax + 2}}

\* The names given to the two constructors
NameInputs ==
    [constructor : {"ColumnMetadata", "Schema"},
     name : SeqsUpTo(NameChars, MaxNameLen) \cup LongNames]

\* ColumnMetadata::new(name, column_type) is called and returns
NewColumn ==
    /\ arg # NoValue
    /\ arg.constructor = "ColumnMetadata"
    /\ ret = NoValue
    /\ ret' = ColumnMetadata_new(arg.name)
    /\ UNCHANGED <<loadVars, restVars, pagingVars, arg>>

\* Schema::new(table_name, columns) is called and returns
NewSchema ==
    /\ arg # NoValue
    /\ arg.constructor = "Schema"
    /\ ret = NoValue
    /\ ret' = Schema_new(arg.name)
    /\ UNCHANGED <<loadVars, restVars, pagingVars, arg>>

\* the name a constructor returned is given to the same constructor again
NewAgain ==
    /\ arg # NoValue
    /\ ret.tag = "Ok"
    /\ ret' = [tag |-> "Again", val |-> ret.val,
               again |-> IF arg.constructor = "ColumnMetadata"
                         THEN ColumnMetadata_new(ret.val)
                         ELSE Schema_new(ret.val)]
    /\ UNCHANGED <<loadVars, restVars, pagingVars, arg>>

(***************************************************************************)
(* Canonical CSV lines (utilities.rs, load.rs).  A cell and a line are     *)
(* sequences of characters.                                                *)
(***************************************************************************)
CellChars == {"a", "\"", ",", "\n", "\r"}

RECURSIVE DoubleQuotes(_)
\* csv_string.replace('"', "\"\"")
DoubleQuotes(str) ==
    IF str = <<>> THEN <<>>
    ELSE (IF Head(str) = "\"" THEN <<"\"", "\"">> ELSE <<Head(str)>>) \o DoubleQuotes(Tail(str))

\* (mutant) the cell is wrapped but its quotes are left single
escape_csv_stringKeepsQuotes(csv_string) ==
    IF \E k \in 1..Len(csv_string) : csv_string[k] \in {"\"", ",", "\n", "\r"}
    THEN <<"\"">> \o csv_string \o <<"\"">>
    ELSE csv_string

\* escape_csv_string
escape_csv_string(csv_string) ==
    IF \E k \in 1..Len(csv_string) : csv_string[k] \in {"\"", ",", "\n", "\r"}
    THEN <<"\"">> \o DoubleQuotes(csv_string) \o <<"\"">>
    ELSE csv_string

RECURSIVE Join(_, _)
\* Itertools::join
Join(strs, sep) ==
    IF strs = <<>> THEN <<>>
    ELSE IF Len(strs) = 1 THEN strs[1]
    ELSE strs[1] \o sep \o Join(Tail(strs), sep)

\* csv_values_to_string (csv_iter_to_string is the same function of an iterator)
csv_values_to_string(csv_values) ==
    Join([k \in 1..Len(csv_values) |-> escape_csv_string(csv_values[k])], <<",">>)
        \o <<"\n">>

RECURSIVE ParseCsv(_, _, _, _, _)
\* The reader of the COPY statement, FORMAT csv with QUOTE '"' and ESCAPE '"':
\* outside quotes a comma ends the field, a line feed ends the record and a quote
\* opens a quoted run; inside quotes two quotes are one quote character, a single
\* quote closes the run and every other character is data.  Gives the records
\* read from data[i..], after the records `rows`, the fields `fields` and the
\* characters `field` of the record being read.
ParseCsv(data, i, in_quote, field, acc) ==
    IF i > Len(data)
    THEN IF acc.fields = <<>> /\ field = <<>> /\ ~in_quote THEN acc.rows
         ELSE Append(acc.rows, Append(acc.fields, field))
    ELSE LET c == data[i]
         IN  IF in_quote
             THEN IF c = "\"" /\ i < Len(data) /\ data[i + 1] = "\""
                  THEN ParseCsv(data, i + 2, TRUE, Append(field, "\""), acc)
                  ELSE IF c = "\"" THEN ParseCsv(data, i + 1, FALSE, field, acc)
                  ELSE ParseCsv(data, i + 1, TRUE, Append(field, c), acc)
             ELSE IF c = "\"" THEN ParseCsv(data, i + 1, TRUE, field, acc)
                  ELSE IF c = ","
                  THEN ParseCsv(data, i + 1, FALSE, <<>>,
                                [acc EXCEPT !.fields = Append(@, field)])
                  ELSE IF c = "\n"
                  THEN ParseCsv(data, i + 1, FALSE, <<>>,
                                [rows |-> Append(acc.rows, Append(acc.fields, field)),
                                 fields |-> <<>>])
                  ELSE ParseCsv(data, i + 1, FALSE, Append(field, c), acc)

\* the records the reader makes of the data
CopyReads(data) == ParseCsv(data, 1, FALSE, <<>>, [rows |-> <<>>, fields |-> <<>>])

\* cells longer than MaxCellLen: the strings of the unit tests, shortened, and
\* quotes around and next to the other special characters
LongCells ==
    { <<"\"", "\"">>,
      <<"\"", "a">>,
      <<"a", "\"">>,
      <<"\"", "\n">>,
      <<",", "\"">>,
      <<"a", ",">>,
      <<"\r", "\n">>,
      <<"a", ",", " ", "a">>,
      <<"a", "\"", "a", "\"", "a">>,
      <<"a", "\r", " ", "a">>,
      <<"a", "\n", " ", "a">>,
      <<"\"", "a", "\"">>,
      <<"\"", "\"", "\"">>,
      <<"\"", ",", "\"">>,
      <<",", "\"", "\n">>,
      <<"\"", "\n", "\"", ",">> }

\* The rows given to csv_values_to_string
Rows == SeqsUpTo(SeqsUpTo(CellChars, MaxCellLen) \cup LongCells, MaxCells)

\* csv_values_to_string(csv_values) is called and returns the line
RenderRow ==
    /\ arg # NoValue
    /\ ret = NoValue
    /\ ret' = [tag |-> "Line", val |-> csv_values_to_string(arg.val)]
    /\ UNCHANGED <<loadVars, restVars, pagingVars, arg>>

\* the line is written to the COPY and read by its CSV reader
CopyRow ==
    /\ ret.tag = "Line"
    /\ ret' = [tag |-> "Records", val |-> CopyReads(ret.val), line |-> ret.val]
    /\ UNCHANGED <<loadVars, restVars, pagingVars, arg>>

(***************************************************************************)
(* The response format of a REST service (scraping.rs).  A format name and *)
(* the advertised list are sequences of characters.                        *)
(***************************************************************************)
\* the format names ArcGIS services advertise in supportedQueryFormats, as written
\* by different server versions
FormatNames ==
    { <<"J", "S", "O", "N">>, <<"j", "s", "o", "n">>,
      <<"g", "e", "o", "J", "S", "O", "N">>, <<"G", "E", "O", "J", "S", "O", "N">>,
      <<"P", "B", "F">>, <<"A", "M", "F">> }

\* char::to_lowercase for the letters of the format names
LowerLetter(c) ==
    CASE c = "A" -> "a" [] c = "B" -> "b" [] c = "E" -> "e" [] c = "F" -> "f"
      [] c = "G" -> "g" [] c = "J" -> "j" [] c = "M" -> "m" [] c = "N" -> "n"
      [] c = "O" -> "o" [] c = "P" -> "p" [] c = "S" -> "s"
      [] OTHER -> c

\* str::to_lowercase
Lowercase(str) == [k \in 1..Len(str) |-> LowerLetter(str[k])]

\* str::contains
Contains(str, pattern) ==
    \E k \in 0..(Len(str) - Len(pattern)) : SubSeq(str, k + 1, k + Len(pattern)) = pattern

\* formats.split(',').next(): the text before the first comma
FirstSplit(str) ==
    LET commas == {k \in 1..Len(str) : str[k] = ","}
    IN  IF commas = {} THEN str
        ELSE SubSeq(str, 1, (CHOOSE k \in commas : \A l \in commas : k <= l) - 1)

GeoJsonFormat == [format |-> "GeoJSON", name |-> <<>>]
JsonFormat == [format |-> "JSON", name |-> <<>>]
NotSupported(name) == [format |-> "NotSupported", name |-> name]

\* (mutant) json is looked for before geojson
QueryFormat_fromJsonFirst(str) ==
    LET formats == Lowercase(str)
    IN  IF Contains(formats, <<"j", "s", "o", "n">>) THEN JsonFormat
        ELSE IF Contains(formats, <<"g", "e", "o", "j", "s", "o", "n">>) THEN GeoJsonFormat
        ELSE NotSupported(FirstSplit(formats))

\* impl From<&str> for QueryFormat
QueryFormat_from(str) ==
    LET formats == Lowercase(str)
    IN  IF Contains(formats, <<"g", "e", "o", "j", "s", "o", "n">>) THEN GeoJsonFormat
        ELSE IF Contains(formats, <<"j", "s", "o", "n">>) THEN JsonFormat
        ELSE NotSupported(FirstSplit(formats))

\* The supportedQueryFormats member of the metadata: up to MaxFormats format names,
\* separated by a comma or by a comma and a space
FormatLists ==
    [tag : {"Formats"}, list : SeqsUpTo(FormatNames, MaxFormats), sep : {<<",">>, <<",", " ">>}]

\* the text of a format list
FormatsText(formats) == Join(formats.list, formats.sep)

\* QueryFormat::from(json_metadata.query_formats.as_str())
ChooseFormat ==
    /\ arg # NoValue
    /\ ret = NoValue
    /\ ret' = [tag |-> "QueryFormat", val |-> QueryFormat_from(FormatsText(arg))]
    /\ UNCHANGED <<loadVars, restVars, pagingVars, arg>>

(***************************************************************************)
(* The URLs of the REST adapter (metadata.rs).  A URL is its host, the     *)
(* segments of its path (a last segment "" is a trailing slash) and the    *)
(* keys of its query pairs.                                                *)
(***************************************************************************)
PathSegments == {"services", "FeatureServer", "0", ""}

\* The layer URLs of ArcGisDataOptions: the path of an http(s) URL has at least one
\* segment, and here only the last may be empty; with or without a query of its own
LayerUrls ==
    {[host |-> "host", path |-> p, params |-> q] :
        p \in {s \in SeqsUpTo(PathSegments, MaxSegments) :
                  s # <<>> /\ \A k \in 1..(Len(s) - 1) : s[k] # ""},
        q \in {<<>>, <<"token">>}}

\* Url::join for a reference that is a path (RFC 3986, 5.2): a reference that begins
\* with "/" replaces the whole path of the base; any other reference replaces the
\* base's last segment.  The base's query is dropped either way.
Url_join(base, reference) ==
    [host |-> base.host,
     path |-> IF reference.absolute THEN reference.path
              ELSE SubSeq(base.path, 1, Len(base.path) - 1) \o reference.path,
     params |-> <<>>]

\* "/query"
SlashQuery == [absolute |-> TRUE, path |-> <<"query">>]

\* Url::parse_with_params: the pairs are appended to the URL's query
Url_parse_with_params(url, keys) == [url EXCEPT !.params = @ \o keys]

\* get_service_metadata: the URL requested
metadata_url(url) == Url_parse_with_params(url, <<"f">>)

\* get_service_count: the URL requested
count_url(url) ==
    Url_parse_with_params(Url_join(url, SlashQuery), <<"where", "returnCountOnly", "f">>)

\* get_object_ids_response: the URL requested
object_ids_url(url) ==
    Url_parse_with_params(Url_join(url, SlashQuery), <<"where", "returnIdsOnly", "f">>)

\* get_service_max_min_stats: the URL requested
statistics_url(url) ==
    Url_parse_with_params(Url_join(url, SlashQuery), <<"outStatistics", "f">>)

\* QueryIterator::new and next: the URL of a feature query, in either mode
feature_query_url(url, mode) ==
    Url_parse_with_params(Url_join(url, SlashQuery),
        <<"geometryType", "outSR", "f", "outFields">>
            \o (IF mode = "OID" THEN <<"where">> ELSE <<"resultOffset", "resultRecordCount">>))

\* the request of get_service_metadata is built
RequestMetadata ==
    /\ arg # NoValue
    /\ ret = NoValue
    /\ ret' = [tag |-> "metadata", val |-> metadata_url(arg.val)]
    /\ UNCHANGED <<loadVars, restVars, pagingVars, arg>>

\* the request of get_service_count is built
RequestCount ==
    /\ arg # NoValue
    /\ ret = NoValue
    /\ ret' = [tag |-> "query", val |-> count_url(arg.val)]
    /\ UNCHANGED <<loadVars, restVars, pagingVars, arg>>

\* the request of get_object_ids_response is built
RequestObjectIds ==
    /\ arg # NoValue
    /\ ret = NoValue
    /\ ret' = [tag |-> "query", val |-> object_ids_url(arg.val)]
    /\ UNCHANGED <<loadVars, restVars, pagingVars, arg>>

\* the request of get_service_max_min_stats is built
RequestStatistics ==
    /\ arg # NoValue
    /\ ret = NoValue
    /\ ret' = [tag |-> "query", val |-> statistics_url(arg.val)]
    /\ UNCHANGED <<loadVars, restVars, pagingVars, arg>>

\* the query iterator yields the URL of a feature query
RequestFeatures ==
    /\ arg # NoValue
    /\ ret = NoValue
    /\ \E mode \in {"OID", "Pagination"} :
          ret' = [tag |-> "query", val |-> feature_query_url(arg.val, mode)]
    /\ UNCHANGED <<loadVars, restVars, pagingVars, arg>>

(***************************************************************************)
(* Schemas and rows of the geospatial adapters (geo_json.rs, shape.rs,     *)
(* arcgis/mod.rs, arcgis/metadata.rs).  A JSON value is known by its kind, *)
(* a name is a sequence of characters, a row is the CSV text the adapter   *)
(* gives to the channel.                                                   *)
(***************************************************************************)
MaxFeatures == 3
MaxProperties == 1

JsonKinds == {"null", "bool", "number", "string", "json"}

\* the kinds of value the properties of the model's features have
PropertyKinds == {"null", "number", "string"}

\* the names of the properties and fields, in the order of a serde_json Map
FieldNames == << <<"a">>, <<"z">> >>

GeometryName == <<"g", "e", "o", "m", "e", "t", "r", "y">>

\* the file name the table is named after
TableName == <<"z", "a">>

\* geo_json.rs column_type_from_value
column_type_from_value(value) ==
    CASE value = "null" -> None
      [] value = "bool" -> Some("Boolean")
      [] value = "number" -> Some("Number")
      [] value = "string" -> Some("Text")
      [] value = "json" -> Some("Json")

\* map_json_value: the text of a value of each kind
map_json_value(value) ==
    CASE value = "null" -> <<>>
      [] value = "bool" -> <<"t", "r", "u", "e">>
      [] value = "number" -> <<"1">>
      [] value = "string" -> <<"a", ",", "a">>
      [] value = "json" -> <<"[", "1", ",", "1", "]">>

\* feature_geometry_as_wkt: no geometry is the empty text
feature_geometry_as_wkt(feature) ==
    CASE feature.geometry = "none" -> OkValue(<<>>)
      [] feature.geometry = "point" -> OkValue(<<"P", "O", "I", "N", "T", "(", "1", " ", "1", ")">>)
      [] feature.geometry = "bad" -> ErrValue(Generic("geometry", 0))

RECURSIVE CollectColumns(_, _)
\* columns.map(ColumnMetadata::new).collect::<BulkDataResult<_>>(): the columns
\* made of (name, type) pairs, or the first error
CollectColumns(pairs, made) ==
    IF pairs = <<>> THEN OkValue(made)
    ELSE LET column == ColumnMetadata_new(Head(pairs).name)
         IN  IF IsErr(column) THEN column
             ELSE CollectColumns(Tail(pairs),
                      Append(made, [name |-> column.val,
                                    column_type |-> Head(pairs).column_type]))

\* Schema::new with its columns (analyze.rs 148-162)
Schema_newWithColumns(table_name, columns) ==
    IF IsErr(Schema_new(table_name)) THEN Schema_new(table_name)
    ELSE OkValue([table_name |-> Schema_new(table_name).val, columns |-> columns])

\* Schema::from_iter
Schema_from_iter(table_name, pairs) ==
    IF IsErr(CollectColumns(pairs, <<>>)) THEN CollectColumns(pairs, <<>>)
    ELSE Schema_newWithColumns(table_name, CollectColumns(pairs, <<>>).val)

\* ColumnMetadata::new("geometry", ColumnType::Geometry): the name is a
\* lowercase identifier, which clean_sql_name returns as it is
GeometryPair == [name |-> GeometryName, column_type |-> "Geometry"]

\* collect_columns_into_schema: an unresolved type is Text, geometry comes last
collect_columns_into_schema(table_name, columns) ==
    Schema_from_iter(table_name,
        [i \in 1..Len(columns) |->
            [name |-> columns[i].name,
             column_type |-> IF columns[i].typ = None THEN "Text" ELSE columns[i].typ.val]]
        \o <<GeometryPair>>)

\* Feature::properties_iter: a feature without properties has none to give
properties_iter(feature) ==
    IF feature.properties = None THEN <<>> ELSE feature.properties.val

RECURSIVE ScanProperties(_, _, _, _)
\* the inner loop of schema() over the properties of one later feature, by
\* position: a resolved column is skipped, an unresolved one takes the type of
\* the value, a position the first feature did not have is an error
ScanProperties(properties, i, columns, undefined_type) ==
    IF i > Len(properties)
    THEN [tag |-> "Ok", columns |-> columns, undefined_type |-> undefined_type]
    ELSE IF i > Len(columns)
    THEN ErrValue(Generic("Found column that was not found in the first feature", i - 1))
    ELSE IF columns[i].typ # None
    THEN ScanProperties(properties, i + 1, columns, undefined_type)
    ELSE ScanProperties(properties, i + 1,
             [columns EXCEPT ![i].typ = column_type_from_value(properties[i].value)],
             undefined_type \/ column_type_from_value(properties[i].value) = None)

RECURSIVE ScanFeatures(_, _, _, _)
\* the loop of schema() over the features after the first: features[k] is the
\* next the reader gives; `read` counts the features taken from the reader
ScanFeatures(features, k, columns, undefined_type) ==
    IF k > Len(features)
    THEN [schema |-> collect_columns_into_schema(TableName, columns), read |-> Len(features)]
    ELSE IF features[k].tag = "Malformed"
    THEN [schema |-> ErrValue(Generic("feature", k)), read |-> k]
    ELSE LET scanned == ScanProperties(properties_iter(features[k]), 1, columns, undefined_type)
         IN  IF IsErr(scanned) THEN [schema |-> scanned, read |-> k]
             ELSE IF ~scanned.undefined_type
             THEN [schema |-> collect_columns_into_schema(TableName, scanned.columns),
                   read |-> k]
             ELSE ScanFeatures(features, k + 1, scanned.columns, FALSE)

\* the columns and the flag schema() has after the first feature
FirstColumns(first_feature) ==
    [i \in 1..Len(properties_iter(first_feature)) |->
        [name |-> properties_iter(first_feature)[i].field,
         typ |-> column_type_from_value(properties_iter(first_feature)[i].value)]]

\* GeoJsonSchemaParser::schema: the schema or the error it returns, and the
\* number of features it took from the reader
GeoJsonSchemaParser_schema(features) ==
    IF features = <<>>
    THEN [schema |-> Schema_newWithColumns(TableName, <<>>), read |-> 0]
    ELSE IF features[1].tag = "Malformed"
    THEN [schema |-> ErrValue(Generic("feature", 1)), read |-> 1]
    ELSE IF \A i \in 1..Len(FirstColumns(features[1])) : FirstColumns(features[1])[i].typ # None
    THEN [schema |-> collect_columns_into_schema(TableName, FirstColumns(features[1])),
          read |-> 1]
    ELSE ScanFeatures(features, 2, FirstColumns(features[1]), TRUE)

\* geo_json.rs feature_properties_to_iter
GeoJsonPropertiesToCells(properties) ==
    [i \in 1..Len(properties) |-> map_json_value(properties[i].value)]

RECURSIVE GeoJsonSpool(_, _, _)
\* GeoJsonParser::spool_records: the messages given to the channel for
\* features[k..], after the messages `out`
GeoJsonSpool(features, k, out) ==
    IF k > Len(features) THEN out
    ELSE IF features[k].tag = "Malformed"
    THEN Append(out, ErrValue(Generic("feature", k)))
    ELSE IF IsErr(feature_geometry_as_wkt(features[k]))
    THEN Append(out, feature_geometry_as_wkt(features[k]))
    ELSE GeoJsonSpool(features, k + 1,
             Append(out,
                 OkValue(IF features[k].properties = None THEN <<>>
                         ELSE csv_values_to_string(
                                  GeoJsonPropertiesToCells(features[k].properties.val)
                                  \o <<feature_geometry_as_wkt(features[k]).val>>))))

\* TryFrom<&RestServiceFieldType> for ColumnType
RestColumnType(field_type) ==
    CASE field_type = "Blob" -> ErrValue(Generic("Blob type fields are not supported", 0))
      [] field_type = "Date" -> OkValue("Date")
      [] field_type = "Double" -> OkValue("DoublePrecision")
      [] field_type = "Float" -> OkValue("Real")
      [] field_type = "Geometry" -> ErrValue(Generic("Geometry type fields are not supported", 0))
      [] field_type = "GlobalID" -> OkValue("UUID")
      [] field_type = "GUID" -> OkValue("UUID")
      [] field_type = "Integer" -> OkValue("Integer")
      [] field_type = "OID" -> OkValue("Integer")
      [] field_type = "Raster" -> ErrValue(Generic("Raster type fields are not supported", 0))
      [] field_type = "Single" -> OkValue("Real")
      [] field_type = "SmallInteger" -> OkValue("SmallInt")
      [] field_type = "String" -> OkValue("Text")
      [] field_type = "XML" -> OkValue("Text")

ShapeName == <<"S", "h", "a", "p", "e">>

\* ArcGisRestMetadata::fields: without the field named Shape and the geometry fields
RestFields(fields) ==
    SelectSeq(fields, LAMBDA f : f.name # ShapeName /\ f.field_type # "Geometry")

\* TryFrom<ArcGisRestMetadata> for Schema: one column for each of fields()
RestSchema(fields) ==
    LET kept == RestFields(fields)
        bad == {i \in 1..Len(kept) : IsErr(RestColumnType(kept[i].field_type))}
    IN  IF bad # {}
        THEN RestColumnType(kept[CHOOSE i \in bad : \A j \in bad : i <= j].field_type)
        ELSE Schema_from_iter(TableName,
                 [i \in 1..Len(kept) |->
                     [name |-> kept[i].name,
                      column_type |-> RestColumnType(kept[i].field_type).val]])

\* map_arcgis_value: the text of a value of a field
map_arcgis_value(value, field) ==
    CASE field.field_type \in {"Blob", "Geometry", "Raster"} ->
             RestColumnType(field.field_type)
      [] field.field_type = "Date" ->
             IF value = "null" THEN OkValue(<<>>)
             ELSE IF value = "number"
             THEN OkValue(<<"1", "9", "7", "0", "-", "0", "1", "-", "0", "1", " ",
                            "0", "0", ":", "0", "0", ":", "0", "0">>)
             ELSE ErrValue(Generic("Date fields should only contain numbers or null", 0))
      [] OTHER -> OkValue(map_json_value(value))

\* arcgis/mod.rs feature_properties_to_iter: the cell of every property, in the
\* order of the feature's properties; a key that is no field is an error
RestPropertiesToCells(properties, fields) ==
    [i \in 1..Len(properties) |->
        LET named == {k \in 1..Len(fields) : fields[k].name = properties[i].field}
        IN  IF named = {}
            THEN ErrValue(Generic("Could not find a key found in a feature's properties", i))
            ELSE map_arcgis_value(properties[i].value,
                                  fields[CHOOSE k \in named : \A j \in named : j <= k])]

\* csv_result_iter_to_string over the cells of one row: the row's line, or the
\* first cell error
CsvResultIterToString(cells) ==
    LET bad == {i \in 1..Len(cells) : IsErr(cells[i])}
    IN  IF bad # {} THEN cells[CHOOSE i \in bad : \A j \in bad : i <= j]
        ELSE OkValue(csv_values_to_string([i \in 1..Len(cells) |-> cells[i].val]))

RECURSIVE RestSpool(_, _, _, _)
\* the loop of ArcGisRestParser::spool_records over the features of a
\* collection: the messages given to the channel
RestSpool(fields, features, k, out) ==
    IF k > Len(features) THEN out
    ELSE IF IsErr(feature_geometry_as_wkt(features[k]))
    THEN Append(out, feature_geometry_as_wkt(features[k]))
    ELSE IF features[k].properties = None
    THEN RestSpool(fields, features, k + 1, Append(out, OkValue(<<>>)))
    ELSE LET row == CsvResultIterToString(
                        RestPropertiesToCells(features[k].properties.val, RestFields(fields))
                        \o <<feature_geometry_as_wkt(features[k])>>)
         IN  IF IsErr(row) THEN Append(out, row)
             ELSE RestSpool(fields, features, k + 1, Append(out, row))

DeletionFlag == <<"D", "e", "l">>

\* ShapeDataOptions::fields: the fields of the attribute table without DeletionFlag
ShapeFields(fields) == SelectSeq(fields, LAMBDA f : f # DeletionFlag)

\* shape.rs column_type_from_value
ShapeColumnType(value) ==
    CASE value = "Character" -> "Text"
      [] value = "Numeric" -> "Number"
      [] value = "Logical" -> "Boolean"
      [] value = "Date" -> "Date"
      [] value = "Float" -> "Real"
      [] value = "Integer" -> "Integer"
      [] value = "Currency" -> "Money"
      [] value = "DateTime" -> "Timestamp"
      [] value = "Double" -> "DoublePrecision"
      [] value = "Memo" -> "Text"

\* map_field_value: the text of a value of each kind
map_field_value(value) ==
    CASE value = "Character" -> <<"a", ",", "a">>
      [] value = "Numeric" -> <<"1">>
      [] value = "Logical" -> <<"t", "r", "u", "e">>
      [] value = "Date" -> <<"1", "9", "7", "0", "-", "0", "1", "-", "0", "1">>
      [] value = "Float" -> <<"1">>
      [] value = "Integer" -> <<"1">>
      [] value = "Currency" -> <<"$", "1">>
      [] value = "DateTime" -> <<"1", "9", "7", "0", "-", "0", "1", "-", "0", "1", " ",
                                "0", ":", "0", "0", ":", "0", "0">>
      [] value = "Double" -> <<"1">>
      [] value = "Memo" -> <<"a">>

\* Record::get / Record::remove: the value the record has for the field
RecordGet(record, field_name) ==
    LET named == {k \in 1..Len(record.properties.val) :
                     record.properties.val[k].field = field_name}
    IN  IF named = {} THEN None
        ELSE Some(record.properties.val[CHOOSE k \in named : TRUE].value)

\* shape.rs schema: the type of every field from the first record, then geometry
ShapeSchema(fields, records) ==
    IF records = <<>> \/ records[1].tag = "Malformed"
    THEN ErrValue(Generic("Could not get the first feature", 0))
    ELSE LET kept == ShapeFields(fields)
             missing == {i \in 1..Len(kept) : RecordGet(records[1], kept[i]) = None}
         IN  IF missing # {}
             THEN ErrValue(Generic("Could not find value for field",
                                   CHOOSE i \in missing : \A j \in missing : i <= j))
             ELSE Schema_from_iter(TableName,
                      [i \in 1..Len(kept) |->
                          [name |-> kept[i],
                           column_type |-> ShapeColumnType(RecordGet(records[1], kept[i]).val)]]
                      \o <<GeometryPair>>)

\* the cells of a record in spool_records: one for each field, then the shape
ShapeCells(fields, record) ==
    [i \in 1..Len(fields) |->
        IF RecordGet(record, fields[i]) = None
        THEN ErrValue(Generic("Could not find field", i))
        ELSE OkValue(map_field_value(RecordGet(record, fields[i]).val))]
    \o <<feature_geometry_as_wkt(record)>>

RECURSIVE ShapeSpool(_, _, _, _)
\* shape.rs spool_records: the messages given to the channel; a record or a
\* shape that cannot be read ends the loop, the row of a record is sent as it
\* is, line or error, and the loop goes on
ShapeSpool(fields, records, k, out) ==
    IF k > Len(records) THEN out
    ELSE IF records[k].tag = "Malformed"
    THEN Append(out, ErrValue(Generic("Could not obtain feature", k - 1)))
    ELSE IF IsErr(feature_geometry_as_wkt(records[k]))
    THEN Append(out, ErrValue(Generic("Could not obtain shape for feature", k - 1)))
    ELSE ShapeSpool(fields, records, k + 1,
             Append(out, CsvResultIterToString(ShapeCells(ShapeFields(fields), records[k]))))

MaxRecords == 2

\* the positions of FieldNames a feature has properties for, in rising order
PropertyPositions ==
    {ix \in SeqsUpTo(1..Len(FieldNames), MaxProperties) :
        \A i \in 1..(Len(ix) - 1) : ix[i] < ix[i + 1]}

\* the properties a feature or record can have, their values of the kinds given
PropertyLists(kinds) ==
    UNION {{[i \in 1..Len(ix) |-> [field |-> FieldNames[ix[i]], value |-> ks[i]]] :
               ks \in [1..Len(ix) -> kinds]} : ix \in PropertyPositions}

\* the features of a file or of a response: with properties and a point, and
\* the ones without properties, without geometry, with a geometry that does
\* not convert
Features(kinds) ==
    {[tag |-> "Feature", properties |-> Some(l), geometry |-> "point"] :
        l \in PropertyLists(kinds)}
    \cup {[tag |-> "Feature", properties |-> None, geometry |-> "point"],
          [tag |-> "Feature", properties |-> Some(<<>>), geometry |-> "none"],
          [tag |-> "Feature", properties |-> Some(<<>>), geometry |-> "bad"]}

\* the records of a shapefile: each has its shape and its values
Records(kinds) == {f \in Features(kinds) : f.properties # None}

\* what the reader of a file gives: a feature, or the error of one it cannot read
Malformed == [tag |-> "Malformed"]

\* the fields a service's metadata lists
ServiceFields ==
    {[name |-> FieldNames[1], field_type |-> "OID"],
     [name |-> FieldNames[2], field_type |-> "String"],
     [name |-> FieldNames[2], field_type |-> "Date"],
     [name |-> FieldNames[1], field_type |-> "Blob"],
     [name |-> ShapeName, field_type |-> "Geometry"]}

\* the kinds of value the attribute table of the model's shapefiles has
ShapeKinds == {"Character", "Numeric"}

\* sequences without a repeated member
Distinct(q) == \A i, j \in 1..Len(q) : i # j => q[i] # q[j]

\* GeoJsonSchemaParser::schema is called and returns
InferGeoJson ==
    /\ arg # NoValue
    /\ arg.tag = "GeoJson"
    /\ ret = NoValue
    /\ ret' = [tag |-> "Schema",
               schema |-> GeoJsonSchemaParser_schema(arg.features).schema,
               read |-> GeoJsonSchemaParser_schema(arg.features).read]
    /\ UNCHANGED <<loadVars, restVars, pagingVars, arg>>

\* ArcGisRestSchemaParser::schema is called and returns
InferRest ==
    /\ arg # NoValue
    /\ arg.tag = "Rest"
    /\ ret = NoValue
    /\ ret' = [tag |-> "Schema", schema |-> RestSchema(arg.fields), read |-> 0]
    /\ UNCHANGED <<loadVars, restVars, pagingVars, arg>>

\* shape.rs schema is called and returns
InferShape ==
    /\ arg # NoValue
    /\ arg.tag = "Shape"
    /\ ret = NoValue
    /\ ret' = [tag |-> "Schema", schema |-> ShapeSchema(arg.fields, arg.features),
               read |-> IF arg.features = <<>> THEN 0 ELSE 1]
    /\ UNCHANGED <<loadVars, restVars, pagingVars, arg>>

\* the source whose schema was inferred is spooled by the matching adapter
SpoolGeoSource ==
    /\ arg # NoValue
    /\ ret.tag = "Schema"
    /\ ret' = [tag |-> "Rows", schema |-> ret.schema, read |-> ret.read,
               rows |-> CASE arg.tag = "GeoJson" -> GeoJsonSpool(arg.features, 1, <<>>)
                          [] arg.tag = "Rest" ->
                                 RestSpool(arg.fields, arg.features, 1, <<>>)
                          [] arg.tag = "Shape" ->
                                 ShapeSpool(arg.fields, arg.features, 1, <<>>)]
    /\ UNCHANGED <<loadVars, restVars, pagingVars, arg>>

(***************************************************************************)
(* Specification of the load engine.                                       *)
(***************************************************************************)
\* load_data has just been called
InitFresh ==
    /\ revision \in Revisions
    /\ adapter \in Adapters
    /\ source \in Sources(adapter)
    /\ pc = "open"
    /\ sp = "idle"
    /\ copy = "none"
    /\ nxt = 0
    /\ chan = <<>>
    /\ emitted = <<>>

\* The spooler has run ahead of the drainer: before the drain loop's first recv it
\* has sent the first ChannelCapacity rows of a source of ChannelCapacity + MaxTail
\* plain rows, so the channel is full
InitAhead ==
    /\ revision = "mod"
    /\ adapter = "Delimited"
    /\ source = [open |-> TRUE, bulk |-> ChannelCapacity,
                 tail |-> [i \in 1..MaxTail |-> "ok"], service |-> NoValue]
    /\ pc = "recv"
    /\ sp = "run"
    /\ copy = "open"
    /\ nxt = ChannelCapacity + 1
    /\ chan = [i \in 1..ChannelCapacity |-> OkValue(Line(i))]
    /\ emitted = chan

InitCommon ==
    /\ result = NoValue
    /\ returned = NoValue
    /\ cur = 0
    /\ rxClosed = FALSE
    /\ txDropped = FALSE
    /\ written = <<>>
    /\ finishCalls = 0
    /\ abortCalls = 0
    /\ abortMsg = NoValue
    /\ spExit = "-"
    /\ joined = "-"
    /\ firstErr = NoValue
    /\ sendFailed = FALSE
    /\ droppedAt = "-"

Init == InitFresh /\ InitCommon /\ restIdle /\ pagingIdle /\ callIdle

InitBacklog == (InitFresh \/ InitAhead) /\ InitCommon /\ restIdle /\ pagingIdle /\ callIdle

Next ==
    \/ OpenCopy
    \/ RecvSome
    \/ RecvNone
    \/ CopySend
    \/ JoinSpooler
    \/ FinishDone
    \/ AbortDone
    \/ DropFuture
    \/ SpoolStart
    \/ SpoolRow
    \/ SpoolEnd

\* load_data from its call, on every small source
Spec == Init /\ [][Next]_vars

\* the same, and load_data on a long source with the channel full
SpecBacklog == InitBacklog /\ [][Next]_vars

\* Scheduling: the runtime keeps polling the spawned spooler task and the load_data
\* future, and the database answers every request; the caller need never drop the
\* future.
LoaderStep ==
    OpenCopy \/ RecvSome \/ RecvNone \/ CopySend \/ JoinSpooler \/ FinishDone \/ AbortDone

SpoolerStep == SpoolStart \/ SpoolRow \/ SpoolEnd

Fairness == WF_vars(LoaderStep) /\ WF_vars(SpoolerStep)

FairSpec == SpecBacklog /\ Fairness

(***************************************************************************)
(* Specification of the REST query loop.                                   *)
(***************************************************************************)
\* The REST spooler has its metadata and its query iterator and enters the query
\* loop; the load engine around it is left at the call of load_data.
InitRest ==
    /\ revision = "mod"
    /\ adapter = "ArcGis"
    /\ source = [open |-> TRUE, bulk |-> 0, tail |-> <<>>,
                 service |-> CHOOSE svc \in ReadyServices : TRUE]
    /\ pc = "open"
    /\ sp = "idle"
    /\ copy = "none"
    /\ nxt = 0
    /\ chan = <<>>
    /\ emitted = <<>>
    /\ InitCommon
    /\ query_format \in QueryFormats
    /\ queryCount \in 1..MaxQueries
    /\ query = 1
    /\ attempts = 0
    /\ served = [i \in 1..MaxQueries |-> <<>>]
    /\ fetchResult = [i \in 1..MaxQueries |-> NoValue]
    /\ fetched = <<>>
    /\ sent = <<>>
    /\ rest = "next"
    /\ pagingIdle
    /\ callIdle

NextRest ==
    \/ FetchQuery
    \/ LoopAttempt
    \/ SpoolFeatures
    \/ QueriesDone

SpecRest == InitRest /\ [][NextRest]_vars

(***************************************************************************)
(* Specification of the query iterator.                                    *)
(***************************************************************************)
\* the load engine at the call of load_data, its spooler not started
loadIdle ==
    /\ revision = "mod"
    /\ adapter = "ArcGis"
    /\ source = [open |-> TRUE, bulk |-> 0, tail |-> <<>>,
                 service |-> CHOOSE svc \in ReadyServices : TRUE]
    /\ pc = "open"
    /\ sp = "idle"
    /\ copy = "none"
    /\ nxt = 0
    /\ chan = <<>>
    /\ emitted = <<>>
    /\ InitCommon

InitPaging ==
    /\ loadIdle
    /\ restIdle
    /\ callIdle
    /\ metadata \in PagedServices
    /\ iter = NoValue
    /\ yielded = <<>>

NextPaging ==
    \/ Queries
    \/ IteratorNext

SpecPaging == InitPaging /\ [][NextPaging]_vars

\* the query iterator of a service with any maxRecordCount
InitPagingAny ==
    /\ loadIdle
    /\ restIdle
    /\ callIdle
    /\ metadata \in AnyCountServices
    /\ iter = NoValue
    /\ yielded = <<>>

SpecPagingAny == InitPagingAny /\ [][NextPaging]_vars

(***************************************************************************)
(* Specification of DataLoader::new.                                       *)
(***************************************************************************)
InitNew ==
    /\ loadIdle
    /\ restIdle
    /\ pagingIdle
    /\ arg \in OptionsDocuments
    /\ ret = NoValue

NextNew == NewLoader

SpecNew == InitNew /\ [][NextNew]_vars

(***************************************************************************)
(* Specification of the name constructors.                                 *)
(***************************************************************************)
InitNames ==
    /\ loadIdle
    /\ restIdle
    /\ pagingIdle
    /\ arg \in NameInputs
    /\ ret = NoValue

NextNames == NewColumn \/ NewSchema \/ NewAgain

SpecNames == InitNames /\ [][NextNames]_vars

(***************************************************************************)
(* Specification of the canonical CSV line.                                *)
(***************************************************************************)
InitCsv ==
    /\ loadIdle
    /\ restIdle
    /\ pagingIdle
    /\ arg \in {[tag |-> "Row", val |-> row] : row \in Rows}
    /\ ret = NoValue

NextCsv == RenderRow \/ CopyRow

SpecCsv == InitCsv /\ [][NextCsv]_vars

(***************************************************************************)
(* Specification of the response format choice.                            *)
(***************************************************************************)
InitFormat ==
    /\ loadIdle
    /\ restIdle
    /\ pagingIdle
    /\ arg \in FormatLists
    /\ ret = NoValue

NextFormat == ChooseFormat

SpecFormat == InitFormat /\ [][NextFormat]_vars

(***************************************************************************)
(* Specification of the URLs of the REST adapter.                          *)
(***************************************************************************)
\* a GeoJSON file, a REST layer (its fields and the features of a response) or
\* a shapefile (the fields of its attribute table and its records) is given
InitGeo ==
    /\ loadIdle
    /\ restIdle
    /\ pagingIdle
    /\ \/ \E f \in SeqsUpTo(Features(PropertyKinds) \cup {Malformed}, MaxFeatures) :
              arg = [tag |-> "GeoJson", features |-> f]
       \/ \E fl \in SeqsUpTo(ServiceFields, MaxProperties),
             f \in SeqsUpTo(Features(PropertyKinds), MaxRecords) :
              /\ Distinct([i \in 1..Len(fl) |-> fl[i].name])
              /\ arg = [tag |-> "Rest", fields |-> fl, features |-> f]
       \/ \E fl \in SeqsUpTo({FieldNames[1], FieldNames[2], DeletionFlag}, MaxProperties + 1),
             f \in SeqsUpTo(Records(ShapeKinds) \cup {Malformed}, MaxRecords) :
              /\ Distinct(fl)
              /\ arg = [tag |-> "Shape", fields |-> fl, features |-> f]
    /\ ret = NoValue

NextGeo == InferGeoJson \/ InferRest \/ InferShape \/ SpoolGeoSource

SpecGeo == InitGeo /\ [][NextGeo]_vars

InitUrl ==
    /\ loadIdle
    /\ restIdle
    /\ pagingIdle
    /\ arg \in {[tag |-> "Url", val |-> u] : u \in LayerUrls}
    /\ ret = NoValue

NextUrl ==
    \/ RequestMetadata
    \/ RequestCount
    \/ RequestObjectIds
    \/ RequestStatistics
    \/ RequestFeatures

SpecUrl == InitUrl /\ [][NextUrl]_vars

(***************************************************************************)
(* Properties of the load engine.                                          *)
(***************************************************************************)
AllOk(msgs) == \A k \in 1..Len(msgs) : IsOk(msgs[k])

\* the lines of the Ok messages of msgs, in order
OkLines(msgs) ==
    LET oks == SelectSeq(msgs, IsOk)
    IN  [k \in 1..Len(oks) |-> oks[k].val]

IsPrefix(p, q) == Len(p) <= Len(q) /\ \A k \in 1..Len(p) : p[k] = q[k]

\* load_data ran to its end on a spooler that sent only Ok lines and then dropped
\* the sender, with every copy.send accepted
OnlyOkRun ==
    /\ pc = "returned"
    /\ sp = "done"
    /\ AllOk(emitted)
    /\ ~sendFailed

\* C1 as stated: on a run of only Ok lines whose copy sends all succeed, every
\* emitted line is forwarded exactly once, the closure is seen only on an empty
\* channel, finish (never abort) is called, and load_data returns the
\* server-reported row count whatever the spooler task reported.
C1_ReturnsRowCount ==
    OnlyOkRun =>
        /\ written = OkLines(emitted)
        /\ chan = <<>>
        /\ finishCalls = 1
        /\ abortCalls = 0
        /\ returned = OkValue(ServerRowCount(adapter, written))

\* C1 amended: the same, except that the row count is returned when copy.finish()
\* succeeds; when finish itself fails, load_data returns finish's SQL error
\* (`Ok(copy.finish().await?)`).  The closure is observed (the loop result is
\* Ok) only when every emitted message was received and written.
C1_FinishesAndReturnsFinishResult ==
    /\ IsOk(result) => (chan = <<>> /\ AllOk(emitted) /\ written = OkLines(emitted))
    /\ OnlyOkRun =>
        /\ IsOk(result)
        /\ finishCalls = 1
        /\ abortCalls = 0
        /\ returned = IF copy = "finished"
                      THEN OkValue(ServerRowCount(adapter, written))
                      ELSE ErrValue(SqlError("finish"))

\* C1 witness: three Ok lines were emitted, all were written, finish succeeded and
\* the count came back although the spooler task is long over
C1_Witness ==
    /\ OnlyOkRun
    /\ Len(emitted) = 3
    /\ written = <<1, 2, 3>>
    /\ copy = "finished"
    /\ adapter = "Avro"
    /\ returned = OkValue(3)

\* C2 as stated: once the drain loop has received Err(e), load_data aborts the copy
\* stream with e's display text, never calls finish, and returns Err(e), that same
\* e, whatever the abort call itself answers.
C2_ReturnsFirstError ==
    (pc = "returned" /\ firstErr # NoValue) =>
        /\ abortCalls = 1
        /\ abortMsg = Display(firstErr)
        /\ finishCalls = 0
        /\ returned = ErrValue(firstErr)

\* the messages the drain loop has taken from the channel and not dropped: the
\* lines written, and the record copy.send is working on
Delivered ==
    [k \in 1..Len(written) |-> OkValue(written[k])]
        \o (IF pc = "send" THEN <<OkValue(cur)>> ELSE <<>>)

\* C3: in every state the lines written to the copy stream are a prefix of the Ok
\* lines the spooler emitted, in the same order; and while the loop is draining,
\* the messages emitted are exactly those delivered followed by those buffered
\* (none dropped, duplicated or reordered).
C3_WrittenIsPrefixOfEmitted ==
    /\ IsPrefix(written, OkLines(emitted))
    /\ pc \in {"recv", "send"} => emitted = Delivered \o chan

\* C3 witness: the spooler is still running, two lines are written, a third is
\* buffered behind them
C3_Witness ==
    /\ sp = "run"
    /\ pc = "recv"
    /\ written = <<1, 2>>
    /\ chan = <<OkValue(3)>>

\* C4 as stated: for every adapter, after the spooler has sent an Err it sends
\* nothing more: the channel carries at most one Err and it is the last message.
C4_ErrIsLastMessage ==
    \A k \in 1..Len(emitted) : IsErr(emitted[k]) => k = Len(emitted)

\* the drain loop has ended with the error `why` holds for
HandledAsError(why) ==
    /\ why => (rxClosed /\ pc \notin {"recv", "send"} /\ IsErr(result) /\ finishCalls = 0)
    /\ (why /\ pc \in {"aborting", "returned"}) =>
           (abortCalls = 1 /\ abortMsg = Display(result.val))
    /\ (why /\ pc = "returned") => IsErr(returned)

\* C5: after a failed copy.send the loop has stopped draining, the receiver is
\* closed, the copy stream is aborted with the text of the loop's error, finish is
\* never called and load_data returns an error; a received Err is handled the same.
C5_SendFailureAborts ==
    /\ HandledAsError(sendFailed)
    /\ sendFailed => result = ErrValue(SendFailure(revision, cur))
    /\ HandledAsError(firstErr # NoValue)

\* C5 witness: a line was written, the next copy.send failed, the stream was
\* aborted and load_data returned the error
C5_Witness ==
    /\ sendFailed
    /\ Len(written) = 1
    /\ pc = "returned"
    /\ copy = "aborted"
    /\ abortMsg = Display(SendFailure(revision, cur))
    /\ returned = result

\* the spooler has rows it has not sent yet
SpoolerHasRows == sp = "run" /\ nxt >= 1 /\ nxt <= SourceLen(source)

\* C6: once the receiver is closed no send succeeds any more; and when the drain
\* loop has ended with an error while the spooler is still running, the spooler
\* task ends and load_data returns (unless its caller drops it first).
C6_ErrorNeverDeadlocks ==
    /\ [][rxClosed => emitted' = emitted]_vars
    /\ (IsErr(result) /\ sp = "run") ~> (sp = "done")
    /\ IsErr(result) ~> (pc \in {"returned", "dropped"})

\* C6 witness: copy.send failed while the spooler, with rows left, waits on a full
\* channel; its send then failed and load_data returned the error
C6_Blocked ==
    /\ IsErr(result)
    /\ pc = "join"
    /\ SpoolerHasRows
    /\ Len(chan) = ChannelCapacity

C6_Witness ==
    /\ sendFailed
    /\ pc = "returned"
    /\ IsErr(returned)
    /\ spExit = "send_error"
    /\ Len(chan) = ChannelCapacity
    /\ Len(emitted) < SourceLen(source)

\* what holds after the future is dropped, whatever the await it was dropped at
DroppedCleanly ==
    /\ [](pc = "dropped" => (rxClosed /\ chan = <<>> /\ copy # "open"))
    /\ [][pc = "dropped" => emitted' = emitted]_vars
    /\ (pc = "dropped") ~> (sp # "run")

\* C7 as stated: the future dropped at any of its awaits, the receiver is gone, no
\* send succeeds any more, the spooler task ends, no copy stream is open, and
\* finish was never called.
C7_DropNeverFinishes ==
    /\ DroppedCleanly
    /\ [](pc = "dropped" => finishCalls = 0)

\* C7 amended: the same, finish never called when the future is dropped before
\* load_data has reached its copy.finish() call (dropped at that await, finish has
\* been called once and may have completed on the server).
C7_DropBeforeFinishNeverFinishes ==
    /\ DroppedCleanly
    /\ [](pc = "dropped" => (finishCalls = 0 <=> droppedAt # "finishing"))

\* C7 witness: dropped while draining, the spooler's next send failed and it ended
C7_Witness ==
    /\ pc = "dropped"
    /\ droppedAt = "recv"
    /\ Len(written) >= 1
    /\ sp = "done"
    /\ spExit = "send_error"
    /\ copy = "released"
    /\ finishCalls = 0

\* C8: the channel never holds more than ChannelCapacity messages, and in a step
\* from a state where it is full no send completes: no message is accepted, and
\* the send ends (failing) only if the receiver was closed; so the spooler is at
\* most ChannelCapacity messages ahead of the drain loop.
C8_BoundedBackpressure ==
    /\ [](Len(chan) <= ChannelCapacity)
    /\ [](pc \in {"recv", "send"} => Len(emitted) - Len(Delivered) <= ChannelCapacity)
    /\ [][Len(chan) = ChannelCapacity =>
            /\ emitted' = emitted
            /\ (SpoolerHasRows /\ ~rxClosed) => UNCHANGED spoolerVars]_vars

\* C8 witness: the channel refilled to capacity after the drain loop took lines,
\* the spooler waiting with rows left
C8_Witness ==
    /\ Len(chan) = ChannelCapacity
    /\ Len(written) >= 1
    /\ ~rxClosed
    /\ SpoolerHasRows

\* C9 as stated: the spooler task never ends by a panic.
C9_SpoolerNeverPanics == spExit # "panic"

(***************************************************************************)
(* Properties of the REST fetch.                                           *)
(***************************************************************************)
\* the service answered with a status that is not 2xx
NonSuccess(response) == response.status # 0 /\ response.status \notin 200..299

\* query i was answered with non-2xx statuses on its first k <= 4 attempts and with
\* 200 and a feature collection on attempt k + 1
FailsThenSucceeds(i) ==
    LET n == Len(served[i])
    IN  /\ n \in 1..MAX_RETRY
        /\ \A k \in 1..(n - 1) : NonSuccess(served[i][k])
        /\ served[i][n].status = 200
        /\ served[i][n].body = "collection"
        /\ query_format # "NotSupported"

\* C10: every query is sent at most MAX_RETRY times; a query answered with non-2xx
\* statuses on its first k <= 4 attempts and with 200 and a feature collection
\* on attempt k + 1 succeeds with the features of that response; and a query runs
\* out of retries only after MAX_RETRY requests of its own, whatever the earlier
\* queries spent.
C10_RetryBudgetPerQuery ==
    \A i \in 1..MaxQueries :
        /\ Len(served[i]) <= MAX_RETRY
        /\ FailsThenSucceeds(i) => fetchResult[i] = OkValue(served[i][Len(served[i])].features)
        /\ (IsErr(fetchResult[i]) /\ fetchResult[i].val.what = "Exceeded max number of retries for a query")
               => Len(served[i]) = MAX_RETRY

\* C10 witness: two queries in a row each failed four times with a 500 and
\* succeeded on the fifth attempt
C10_Witness ==
    /\ rest = "done"
    /\ queryCount = 2
    /\ \A i \in 1..2 :
          /\ Len(served[i]) = MAX_RETRY
          /\ \A k \in 1..(MAX_RETRY - 1) : served[i][k].status = 500
          /\ FailsThenSucceeds(i)
          /\ fetchResult[i] = OkValue(FeaturesOf(i, MAX_RETRY))
    /\ fetched = FeaturesOf(1, MAX_RETRY) \o FeaturesOf(2, MAX_RETRY)

\* every response query i was given carried a status that is not 2xx, and the
\* fetch of query i has returned
AlwaysRefused(i) ==
    /\ Len(served[i]) >= 1
    /\ \A k \in 1..Len(served[i]) : NonSuccess(served[i][k])
    /\ fetchResult[i] # NoValue

\* C11 as stated: a query refused with a non-2xx status on every attempt fails with
\* the REST-specific error (the ArcGis variant) that carries the query URL and the
\* HTTP status of the refusal.
C11_ExhaustionReturnsRestError ==
    \A i \in 1..MaxQueries :
        AlwaysRefused(i) =>
            fetchResult[i] = ErrValue(ArcGis(QueryUrl(i), served[i][Len(served[i])].status))

\* what try_query made of the k-th response to query i
Tried(i, k) == try_query(query_format, QueryUrl(i), served[i][k])

\* C12: an attempt of a query is followed by another attempt only if it ended with
\* the ArcGis status error; an attempt that ends with any other error is the
\* query's last, and that error is what the fetch returns.
C12_OnlyStatusErrorsRetried ==
    \A i \in 1..MaxQueries :
        \A k \in 1..Len(served[i]) :
            /\ k < Len(served[i]) => (IsErr(Tried(i, k)) /\ Tried(i, k).val.variant = "ArcGis")
            /\ (IsErr(Tried(i, k)) /\ Tried(i, k).val.variant # "ArcGis") =>
                   (k = Len(served[i]) /\ fetchResult[i] = Tried(i, k) /\ rest = "failed")

\* C12 witness: the second query was refused twice with a 500, then its 200
\* response did not parse; the fetch returned that error after three requests
C12_Witness ==
    /\ rest = "failed"
    /\ query = 2
    /\ query_format = "json"
    /\ Len(served[2]) = 3
    /\ served[2][1].status = 500 /\ served[2][2].status = 500
    /\ served[2][3].body = "malformed"
    /\ fetchResult[2] = ErrValue(Reqwest("json"))

(***************************************************************************)
(* Properties of the query iterator.                                       *)
(***************************************************************************)
CeilDiv(n, c) == (n + c - 1) \div c

\* min(M, 10000) for the service's maxRecordCount M
RecordsPerQuery ==
    IF metadata.max_record_count < 10000 THEN metadata.max_record_count ELSE 10000

\* record r (counted from 0) is in the range the i-th offset query (i from 0) asks for
InOffsetRange(r, i) ==
    /\ yielded[i + 1].resultOffset <= r
    /\ r < yielded[i + 1].resultOffset + yielded[i + 1].resultRecordCount

\* C13: in offset mode, with N the count and c = min(M, 10000), the i-th query
\* yielded (i from 0) has resultOffset = i * c and resultRecordCount = c, never
\* more than ceil(N / c) queries are yielded, and when the iterator has returned
\* None exactly ceil(N / c) were, every record of 0..N-1 in the range of exactly one.
C13_OffsetPagination ==
    iter.tag = "Pagination" =>
        LET c == RecordsPerQuery
            N == metadata.source_count
        IN  /\ Len(yielded) <= CeilDiv(N, c)
            /\ \A i \in 0..(Len(yielded) - 1) :
                   yielded[i + 1] = [mode |-> "Pagination", resultOffset |-> i * c,
                                     resultRecordCount |-> c]
            /\ iter.ended =>
                   /\ Len(yielded) = CeilDiv(N, c)
                   /\ \A r \in 0..(N - 1) :
                          Cardinality({i \in 0..(Len(yielded) - 1) : InOffsetRange(r, i)}) = 1

\* C13 witness: a service of 20001 records with maxRecordCount 10001 was walked in
\* three queries of 10000 records
C13_Witness ==
    /\ iter.tag = "Pagination"
    /\ iter.ended
    /\ metadata.source_count = 20001
    /\ metadata.max_record_count = 10001
    /\ Len(yielded) = 3
    /\ yielded[3].resultOffset = 20000

\* the object ids of the service the i-th window query (i from 0) selects: those
\* its where clause `oid >= lower and oid <= upper` is true of
Selected(i) ==
    {o \in {metadata.objectIds[k] : k \in 1..Len(metadata.objectIds)} :
        o >= yielded[i + 1].lower /\ o <= yielded[i + 1].upper}

\* the ids between the bounds of the i-th window (i from 0)
Window(i) == yielded[i + 1].lower .. yielded[i + 1].upper

\* C14: in OID-window mode, with min the discovered minimum object id and c the
\* scrape count, the i-th query (i from 0) is bounded by min + i * c and
\* min + (i + 1) * c - 1 and selects exactly the service's ids in that interval;
\* each window starts right after the one before it and no two windows share an id.
C14_OidWindows ==
    iter.tag = "OID" =>
        LET c == RecordsPerQuery
            min == metadata.objectIds[1]
        IN  /\ \A i \in 0..(Len(yielded) - 1) :
                   /\ yielded[i + 1].lower = min + i * c
                   /\ yielded[i + 1].upper = min + (i + 1) * c - 1
                   /\ Selected(i) = {o \in Selected(i) : o \in (min + i * c)..(min + (i + 1) * c - 1)}
                   /\ \A o \in (min + i * c)..(min + (i + 1) * c - 1) :
                          (\E k \in 1..Len(metadata.objectIds) : metadata.objectIds[k] = o)
                              => o \in Selected(i)
            /\ \A i \in 1..(Len(yielded) - 1) : yielded[i + 1].lower = yielded[i].upper + 1
            /\ \A i, j \in 0..(Len(yielded) - 1) : i # j => Window(i) \cap Window(j) = {}

\* C14 witness: three windows of two ids each were yielded, starting at id 1
C14_Witness ==
    /\ iter.tag = "OID"
    /\ iter.ended
    /\ metadata.max_record_count = 2
    /\ Len(yielded) = 3
    /\ yielded[1].lower = 1 /\ yielded[3].upper = 6

\* C15 as stated: in OID-window mode, when the iterator has returned None, every
\* object id between the discovered minimum and maximum lies in a yielded window.
C15_WindowsCoverMinToMax ==
    (iter.tag = "OID" /\ iter.ended) =>
        LET min == metadata.objectIds[1]
            max == metadata.objectIds[Len(metadata.objectIds)]
        IN  \A o \in min..max : \E i \in 0..(Len(yielded) - 1) : o \in Window(i)

\* the metadata reports pagination support, directly or through
\* advancedQueryCapabilities
ReportsPagination ==
    metadata.paginationDirect = "true" \/ metadata.paginationAdvanced = "true"

\* C16: once queries() has returned, an iterator is in offset mode iff the metadata
\* reports pagination support, and in OID-window mode only with an object-id field
\* and its minimum id known; every service whose geometry options can be built
\* gets the mode its pagination support and object-id field call for; a service
\* with neither gets an error, and after an error no query is ever yielded.
C16_ModeChoice ==
    iter # NoValue =>
        /\ iter.tag \in {"OID", "Pagination"} => (iter.tag = "Pagination" <=> ReportsPagination)
        /\ iter.tag = "OID" =>
               /\ metadata.oidField
               /\ metadata.objectIds # <<>>
               /\ iter.min_oid = metadata.objectIds[1]
        /\ (metadata.geometryOk /\ ReportsPagination) => iter.tag = "Pagination"
        /\ (metadata.geometryOk /\ ~ReportsPagination /\ metadata.oidField) => iter.tag = "OID"
        /\ (~ReportsPagination /\ ~metadata.oidField) =>
               iter = ErrValue(Generic("Service is not valid for scraping", 0))
        /\ IsErr(iter) => yielded = <<>>

\* C16 witness: pagination support reported only through advancedQueryCapabilities
\* gave an offset-mode iterator, which yielded a query
C16_Witness ==
    /\ metadata.paginationDirect = "false"
    /\ metadata.paginationAdvanced = "true"
    /\ metadata.oidField
    /\ iter.tag = "Pagination"
    /\ Len(yielded) >= 1


\* C26: in every execution of load_data in which the copy stream was opened and the
\* call runs to completion, exactly one of finish and abort is called on the copy
\* stream, exactly once, and only after the spooler task has terminated; finish is
\* called iff the drain loop ended by channel closure, abort iff it ended by an
\* error.
C26_ExactlyOneOfFinishAbort ==
    /\ finishCalls + abortCalls <= 1
    /\ finishCalls + abortCalls = 1 =>
          /\ sp = "done"
          /\ finishCalls = 1 <=> IsOk(result)
          /\ abortCalls = 1 <=> IsErr(result)
    /\ (pc = "returned" /\ copy # "none") => finishCalls + abortCalls = 1

\* a load whose spooler still had rows when the drain loop broke on a failed send
\* ran to completion with one abort and no finish
C26_Witness ==
    /\ pc = "returned"
    /\ sendFailed
    /\ spExit = "send_error"
    /\ abortCalls = 1
    /\ finishCalls = 0

\* C27: once the drain loop has received an Err from the channel or a copy-stream
\* send has failed, no further line is written to the copy stream, whatever Ok lines
\* are still buffered in the channel or emitted afterwards by the spooler.
C27_NoWriteAfterError ==
    [][IsErr(result) => written' = written]_vars

\* the drain loop has broken on a received Err while an Ok line emitted after it is
\* in the channel, and the call has returned
C27_Witness ==
    /\ pc = "returned"
    /\ firstErr # NoValue
    /\ \E k \in 1..Len(emitted) : \E l \in (k + 1)..Len(emitted) :
          IsErr(emitted[k]) /\ IsOk(emitted[l])

RECURSIVE RowsOfQueries(_)
\* the rows of the collections fetched for queries 1..j, in query order
RowsOfQueries(j) ==
    IF j = 0 THEN <<>>
    ELSE RowsOfQueries(j - 1)
            \o [k \in 1..Len(fetchResult[j].val) |-> OkValue(fetchResult[j].val[k])]

\* the REST spooler has returned after a failure
EndedOnFailure == rest \in {"failed", "closed"}

\* C29: in the REST spooler queries are fetched strictly one at a time in paginator
\* order, all rows of query i are sent before query i+1 is requested, and once a
\* query fails permanently (retry budget exhausted or non-transient error) exactly
\* one Err is sent and no further query is requested.
C29_QueriesInOrderAndStopOnFailure ==
    /\ [](\A j \in 1..MaxQueries :
             served[j] # <<>> =>
                /\ j <= query
                /\ \A i \in 1..(j - 1) : IsOk(fetchResult[i])
                /\ IsPrefix(RowsOfQueries(j - 1), sent))
    /\ [](\A k \in 1..Len(sent) : IsErr(sent[k]) => k = Len(sent))
    /\ []((rest = "failed") => (sent # <<>> /\ IsErr(sent[Len(sent)])))
    /\ [][EndedOnFailure => (served' = served /\ sent' = sent)]_vars

\* the second query failed for good after the rows of the first were sent: its
\* error is the last message and the only Err
C29_Witness ==
    /\ rest = "failed"
    /\ query = 2
    /\ Len(served[2]) = MAX_RETRY
    /\ Len(sent) = Len(fetchResult[1].val) + 1
    /\ IsOk(sent[1])
    /\ IsErr(sent[Len(sent)])

\* C28: the query iterator terminates for every service metadata: for any total N
\* and any maxRecordCount M reported by the service (including M <= 0), next()
\* returns None after finitely many calls, in offset mode and in OID-window mode.
\* Stated by its variant: every call of next() that returns a query leaves fewer
\* records remaining than before, so that at most N calls return a query.
C28_EveryQueryLowersRemaining ==
    [][yielded' # yielded =>
          /\ iter'.remaining_records_count < iter.remaining_records_count
          /\ Len(yielded') <= metadata.source_count]_vars

(***************************************************************************)
(* Properties of DataLoader::new.                                          *)
(***************************************************************************)
\* the adapter the dispatch table names for an extension, "none" outside the table
TableAdapter(ext) ==
    IF ext = <<"avro">> THEN "Avro"
    ELSE IF ext = <<"txt">> \/ ext = <<"csv">> THEN "Delimited"
    ELSE IF ext = <<"xls">> \/ ext = <<"xlsx">> THEN "Excel"
    ELSE IF ext = <<"geojson">> THEN "GeoJson"
    ELSE IF ext = <<"ipc">> \/ ext = <<"feather">> THEN "Ipc"
    ELSE IF ext = <<"parquet">> THEN "Parquet"
    ELSE IF ext = <<"shp">> THEN "Shape"
    ELSE "none"

\* the adapter the dispatch rule names for a document, "none" when it names an error
Dispatched(options) ==
    IF options.kind # "object" THEN "none"
    ELSE IF options.url # "absent" THEN "ArcGis"
    ELSE IF options.file_path.tag # "string" THEN "none"
    ELSE IF extension(options.file_path.val) = None THEN "none"
    ELSE TableAdapter(extension(options.file_path.val).val)

\* the document carries every member the options of the adapter need
CompleteFor(variant, options) ==
    /\ variant = "ArcGis" => options.url = "valid"
    /\ variant = "Delimited" => options.members = "delimiter, qualified"
    /\ variant = "Excel" => options.members = "sheet_name"

\* C17: DataLoader::new dispatches on the document: a url key selects the REST
\* adapter even when file_path is present; otherwise the extension of file_path
\* selects the adapter by the table; a non-object document, a missing file_path, a
\* missing extension or an extension outside the table gives an error and no
\* loader.  The loader returned is never another adapter than the selected one, and
\* it is returned whenever the document carries the selected adapter's options.
C17_Dispatch ==
    ret # NoValue =>
        /\ Dispatched(arg) = "none" => IsErr(ret)
        /\ IsOk(ret) => ret.val = Dispatched(arg)
        /\ (Dispatched(arg) # "none" /\ CompleteFor(Dispatched(arg), arg))
               => ret = OkValue(Dispatched(arg))

\* a document with both a url and a file_path ending in .csv gave the REST adapter
C17_Witness ==
    /\ arg.kind = "object"
    /\ arg.url = "valid"
    /\ arg.file_path.tag = "string"
    /\ extension(arg.file_path.val) = Some(<<"csv">>)
    /\ ret = OkValue("ArcGis")


(***************************************************************************)
(* Properties of the name constructors.                                    *)
(***************************************************************************)
\* ^[A-Za-z_][A-Za-z_0-9]*$
IsIdentifier(name) ==
    /\ name # <<>>
    /\ name[1] \in UpperChars \cup LowerChars \cup {"_"}
    /\ \A k \in 2..Len(name) : name[k] \in UpperChars \cup LowerChars \cup DigitChars \cup {"_"}

HasDoubleUnderscore(name) ==
    \E k \in 1..(Len(name) - 1) : name[k] = "_" /\ name[k + 1] = "_"

\* C18: for every input name on which construction succeeds, by the fast path or
\* the slow path, the sanitized name matches ^[A-Za-z_][A-Za-z_0-9]*$ and holds no
\* two consecutive underscores.
C18_SanitizedNameIsIdentifier ==
    (ret # NoValue /\ IsOk(ret)) =>
        /\ IsIdentifier(ret.val)
        /\ ~HasDoubleUnderscore(ret.val)

\* ^[A-Z_][A-Z_0-9]{1,64}$ matched without regard to case
MatchesAnyCase(name) ==
    /\ Len(name) >= 2
    /\ Len(name) <= NameTailMax + 1
    /\ LowerOf(name[1]) \in LowerChars \cup {"_"}
    /\ \A k \in 2..Len(name) : LowerOf(name[k]) \in LowerChars \cup DigitChars \cup {"_"}

\* C19: for every input that matches ^[A-Z_][A-Z_0-9]{1,64}$ case-insensitively,
\* ColumnMetadata::new and Schema::new return exactly the input in lower case.
C19_MatchingNameIsLowercased ==
    (ret.tag \in {"Ok", "Err"} /\ MatchesAnyCase(arg.name))
        => ret = OkValue(to_lowercase(arg.name))


(***************************************************************************)
(* Properties of the canonical CSV line.                                   *)
(***************************************************************************)
IsSentinel(c) == c = "\"" \/ c = "," \/ c = "\n" \/ c = "\r"

HasSentinel(cell) == \E k \in 1..Len(cell) : IsSentinel(cell[k])

\* `text` is `cell` with every quote doubled
RECURSIVE IsDoubled(_, _)
IsDoubled(text, cell) ==
    IF cell = <<>> THEN text = <<>>
    ELSE IF cell[1] = "\""
    THEN Len(text) >= 2 /\ text[1] = "\"" /\ text[2] = "\""
            /\ IsDoubled(SubSeq(text, 3, Len(text)), Tail(cell))
    ELSE Len(text) >= 1 /\ text[1] = cell[1] /\ IsDoubled(Tail(text), Tail(cell))

\* `text` is the escaped form of `cell`
IsEscaped(text, cell) ==
    IF HasSentinel(cell)
    THEN /\ Len(text) >= 2
         /\ text[1] = "\""
         /\ text[Len(text)] = "\""
         /\ IsDoubled(SubSeq(text, 2, Len(text) - 1), cell)
    ELSE text = cell

\* `line` is the texts of `cells`, each escaped, with a comma between neighbours
RECURSIVE IsJoined(_, _)
IsJoined(line, cells) ==
    IF cells = <<>> THEN line = <<>>
    ELSE \E n \in 0..Len(line) :
            /\ IsEscaped(SubSeq(line, 1, n), cells[1])
            /\ IF Len(cells) = 1 THEN n = Len(line)
               ELSE /\ n < Len(line)
                    /\ line[n + 1] = ","
                    /\ IsJoined(SubSeq(line, n + 2, Len(line)), Tail(cells))

\* C20: escape_csv_string returns a cell unchanged when it holds none of quote,
\* comma, line feed, carriage return, and otherwise wraps it in quotes with every
\* embedded quote doubled; a row is the escaped cells joined by commas plus one
\* final line feed; and reading that row with quote '"' and escape '"' gives back
\* one record whose fields are the original cells.
C20_RowRoundTrip ==
    /\ ret.tag = "Line" =>
          /\ ret.val # <<>>
          /\ ret.val[Len(ret.val)] = "\n"
          /\ IsJoined(SubSeq(ret.val, 1, Len(ret.val) - 1), arg.val)
    /\ ret.tag = "Records" =>
          /\ Len(ret.val) = 1
          /\ \A k \in 1..Len(arg.val) : k <= Len(ret.val[1]) /\ ret.val[1][k] = arg.val[k]
          /\ arg.val # <<>> => ret.val[1] = arg.val

\* a row of two cells, one holding a quote and a line feed and the other a comma,
\* was rendered and read back
C20_Witness ==
    /\ ret.tag = "Records"
    /\ Len(arg.val) = 2
    /\ arg.val[1] = <<"\"", "\n">>
    /\ arg.val[2] = <<"a", ",">>
    /\ ret.val = <<arg.val>>


\* C30: sanitization is idempotent: for every name on which ColumnMetadata::new or
\* Schema::new succeeds with the sanitized result s, sanitizing s again succeeds and
\* returns s unchanged.
C30_SanitizationIdempotent ==
    ret.tag = "Again" => ret.again = OkValue(ret.val)


(***************************************************************************)
(* Properties of the response format choice.                               *)
(***************************************************************************)
\* the list names the format, in whatever case
Lists(formats, name) == \E k \in 1..Len(formats.list) : Lowercase(formats.list[k]) = name

\* C24: the response format is chosen from the service's advertised format list:
\* GeoJSON whenever the list contains geojson (case-insensitively, at any
\* position), otherwise JSON when it contains json, otherwise NotSupported carrying
\* the first listed format lowercased.
C24_FormatChoice ==
    ret.tag = "QueryFormat" =>
        IF Lists(arg, <<"g", "e", "o", "j", "s", "o", "n">>) THEN ret.val = GeoJsonFormat
        ELSE IF Lists(arg, <<"j", "s", "o", "n">>) THEN ret.val = JsonFormat
        ELSE /\ ret.val.format = "NotSupported"
             /\ arg.list # <<>> => ret.val.name = Lowercase(arg.list[1])

\* "JSON, PBF, geoJSON": geojson listed last, after json, gave GeoJSON
C24_Witness ==
    /\ ret.tag = "QueryFormat"
    /\ Len(arg.list) = 3
    /\ arg.list[1] = <<"J", "S", "O", "N">>
    /\ arg.list[3] = <<"g", "e", "o", "J", "S", "O", "N">>
    /\ ret.val = GeoJsonFormat


(***************************************************************************)
(* Properties of the URLs of the REST adapter.                             *)
(***************************************************************************)
\* the path with `/query` appended (after a trailing slash no second slash is put)
WithQueryAppended(path) ==
    (IF path[Len(path)] = "" THEN SubSeq(path, 1, Len(path) - 1) ELSE path) \o <<"query">>

\* C25: every query URL the REST adapter builds (count, ids-only, statistics and
\* paginated feature queries) is the configured layer URL with `/query` appended to
\* its path, the layer URL's own path being preserved, and metadata is fetched at
\* the layer URL itself with f=json.
C25_QueryUrlsKeepLayerPath ==
    /\ ret.tag = "query" =>
          /\ ret.val.host = arg.val.host
          /\ ret.val.path = WithQueryAppended(arg.val.path)
    /\ ret.tag = "metadata" =>
          /\ ret.val.host = arg.val.host
          /\ ret.val.path = arg.val.path
          /\ ret.val.params = arg.val.params \o <<"f">>

(***************************************************************************)
(* Properties of the schemas and rows of the geospatial adapters.          *)
(***************************************************************************)
\* the reader gave feature e and its property at position i is not null
SeenNonNull(e, i) ==
    /\ e.tag = "Feature"
    /\ e.properties # None
    /\ Len(e.properties.val) >= i
    /\ e.properties.val[i].value # "null"

\* the number of column positions: the properties of the first feature
Width(features) ==
    IF features = <<>> \/ features[1].tag # "Feature" THEN 0
    ELSE Len(properties_iter(features[1]))

\* every column position is seen with a non-null value in features[1..k]
AllSeenBy(features, k) ==
    \A i \in 1..Width(features) : \E j \in 1..k : SeenNonNull(features[j], i)

\* the earliest feature after which every position is seen non-null, or the
\* end of the file
LastNeeded(features) ==
    IF \E k \in 1..Len(features) : AllSeenBy(features, k)
    THEN CHOOSE k \in 1..Len(features) :
             AllSeenBy(features, k) /\ \A j \in 1..(k - 1) : ~AllSeenBy(features, j)
    ELSE Len(features)

\* the type of the first non-null value at position i in features[1..k], Text
\* when there is none
FirstSeenType(features, i, k) ==
    LET seen == {j \in 1..k : SeenNonNull(features[j], i)}
    IN  IF seen = {} THEN "Text"
        ELSE column_type_from_value(
                 features[CHOOSE j \in seen : \A h \in seen : j <= h].properties.val[i].value).val

\* C23: GeoJSON schema inference reads no feature beyond the earliest one after
\* which every column position has been seen with a non-null value (or the end
\* of the file); each column of the schema it returns has the type of the
\* first non-null value seen at its position, Text when none was seen.
C23_ScanStopsWhenResolved ==
    (arg # NoValue /\ arg.tag = "GeoJson" /\ ret.tag \in {"Schema", "Rows"}) =>
        /\ ret.read <= LastNeeded(arg.features)
        /\ (IsOk(ret.schema) /\ arg.features # <<>>) =>
              \A i \in 1..Width(arg.features) :
                  ret.schema.val.columns[i].column_type =
                      FirstSeenType(arg.features, i, LastNeeded(arg.features))

\* C22: whenever schema inference succeeds on a geospatial source (shapefile,
\* GeoJSON, REST service; a GeoJSON file without features included), the last
\* column of the schema is named geometry and has type Geometry.
C22_GeometryColumnLast ==
    (arg # NoValue /\ ret.tag \in {"Schema", "Rows"} /\ IsOk(ret.schema)) =>
        /\ ret.schema.val.columns # <<>>
        /\ ret.schema.val.columns[Len(ret.schema.val.columns)] =
               [name |-> GeometryName, column_type |-> "Geometry"]

\* the name of the property or field whose value is cell i of the row the
\* adapter makes of features[k]
CellField(src, k, i) ==
    IF src.tag = "Shape" THEN ShapeFields(src.fields)[i]
    ELSE src.features[k].properties.val[i].field

\* the adapter makes no cell i of features[k], or makes it of another field
\* than the one column i is named after
CellOutOfOrder(src, k, i) ==
    IF src.tag = "Shape" THEN i > Len(ShapeFields(src.fields))
    ELSE \/ src.features[k].properties = None
         \/ i > Len(src.features[k].properties.val)
         \/ ColumnMetadata_new(CellField(src, k, i)) #
                OkValue(ret.schema.val.columns[i].name)

\* C21: every Ok row an adapter emits is one record of as many cells as the
\* schema inferred for the same source has columns, and the cell of each
\* column before the geometry is the value of the property or field the column
\* is named after.
C21_RowsMatchSchema ==
    (arg # NoValue /\ ret.tag = "Rows" /\ IsOk(ret.schema)) =>
        \A k \in 1..Len(ret.rows) :
            IsOk(ret.rows[k]) =>
                /\ Len(CopyReads(ret.rows[k].val)) = 1
                /\ Len(CopyReads(ret.rows[k].val)[1]) = Len(ret.schema.val.columns)
                /\ \A i \in 1..(Len(ret.schema.val.columns) - 1) :
                       ~CellOutOfOrder(arg, k, i)

=============================================================================
